---- MODULE Spec2Model ----
(***************************************************************************)
(* Model of dlls/winewayland.drv/window.c: the window-data registry, the   *)
(* surface role manager and the configure state machine, as run by several *)
(* threads that enter the driver through its public entry points.          *)
(*                                                                         *)
(* Every thread has a call stack of frames; a frame is one activation of a *)
(* C function and its pc names the next statement group of that function.  *)
(* A step is taken at every mutex acquisition and between them.            *)
(***************************************************************************)
EXTENDS Integers, Sequences, FiniteSets, TLC

(* ------------------------------ bounds -------------------------------- *)
\* operations each of the two threads may start in SpecThreads
MaxOps == 2
\* operations the single thread may start in Spec
MaxSeqOps == 4
\* configure events the compositor delivers (serials 1..MaxSerial)
MaxSerial == 2
\* heap cells for wayland_win_data and for wayland_surface, per window
MaxRecs == 2
MaxSurfs == 2

(* ------------------------- the window system --------------------------- *)
Threads == {"t1", "t2"}
NoThread == "none"
NULL == 0
\* window handles: the desktop, a top-level window and a child of it
Desktop == 1
TopWin == 2
ChildWin == 3
\* a window that was the parent of the child window earlier and has no
\* record now
FormerWin == 4
HWNDS == {TopWin, ChildWin}
\* the cells are numbered from 1; a window's records and surfaces are put
\* in cells of its own
RecIds == 1..(MaxRecs * Cardinality(HWNDS))
SurfIds == 1..(MaxSurfs * Cardinality(HWNDS))
RecCells(hwnd) == {(hwnd - TopWin) * MaxRecs + k : k \in 1..MaxRecs}
SurfCells(hwnd) == {(hwnd - TopWin) * MaxSurfs + k : k \in 1..MaxSurfs}
\* the lock name of win_data_mutex in a thread's list of held locks; a
\* surface's mutex is named by the surface id
Registry == 0

\* NtUserGetAncestor(hwnd, GA_PARENT)
GetAncestor(h) ==
    CASE h = ChildWin -> TopWin
      [] h = TopWin -> Desktop
      [] OTHER -> NULL

\* NtUserIsChild(parent, child): child is a descendant of parent
RECURSIVE IsChild(_, _)
IsChild(p, c) ==
    IF c = NULL \/ c = Desktop THEN FALSE
    ELSE GetAncestor(c) = p \/ IsChild(p, GetAncestor(c))

UWS_FORCE_ROLE_UPDATE == "FORCE_ROLE_UPDATE"
UWS_FORCE_CREATE == "FORCE_CREATE"
UWS_NO_UPDATE_CHILDREN == "NO_UPDATE_CHILDREN"

MAXIMIZED == "MAXIMIZED"
FULLSCREEN == "FULLSCREEN"
RESIZING == "RESIZING"
TILED == "TILED"

\* the configure events (state and size) the compositor sends in this model
Configs ==
    {[state |-> {}, width |-> 800, height |-> 600],
     [state |-> {MAXIMIZED}, width |-> 1920, height |-> 1200],
     [state |-> {FULLSCREEN}, width |-> 1920, height |-> 1200],
     [state |-> {RESIZING}, width |-> 800, height |-> 600],
     [state |-> {TILED}, width |-> 0, height |-> 0]}

(* ------------------------------ state ---------------------------------- *)
VARIABLES
    win_data_mutex,          \* owner of win_data_mutex, or NoThread
    win_data_rb,             \* the record ids linked in the rb tree
    win_data,                \* heap of struct wayland_win_data
    surfaces,                \* heap of struct wayland_surface
    window_surface_binding,  \* per window: the wayland surface its window_surface targets
    style,                   \* per window: the WS_MAXIMIZE style bit
    th,                      \* per thread: call stack, held locks, effects of the running operation
    budget,                  \* per thread: operations it may still start
    fault,                   \* "none", or the undefined behaviour the process ran into
    next_serial,             \* the next configure serial of the compositor
    superseded               \* <<surface, serial>> of snapshots overwritten in requested

vars == <<win_data_mutex, win_data_rb, win_data, surfaces, window_surface_binding,
          style, th, budget, fault, next_serial, superseded>>

NoConfig == [serial |-> 0, processed |-> FALSE, width |-> 0, height |-> 0, state |-> {}]

NoWindowConfig == [state |-> {}]

FreeSurface ==
    [alive |-> FALSE, hwnd |-> NULL, mutex |-> NoThread, role |-> "NONE",
     xdg_toplevel |-> FALSE, wl_subsurface |-> FALSE, parent_weak_ref |-> NULL,
     client |-> FALSE, requested |-> NoConfig, processing |-> NoConfig,
     current |-> NoConfig, resizing |-> FALSE, window |-> NoWindowConfig]

FreeRec ==
    [used |-> FALSE, hwnd |-> NULL, window_surface |-> FALSE, wayland_surface |-> NULL]

\* one activation of a function; the fields are the function's locals
Frame(fn, pc, hwnd) ==
    [fn |-> fn, pc |-> pc, hwnd |-> hwnd, data |-> NULL, pdata |-> NULL, flags |-> {},
     surface |-> NULL, role |-> "NONE", changed |-> FALSE, client |-> FALSE,
     todo |-> <<>>, cmd |-> "", serial |-> 0, state |-> {}, width |-> 0, height |-> 0,
     swp |-> {}, arg |-> FALSE, needs_enter_size_move |-> FALSE,
     needs_exit_size_move |-> FALSE]

IdleThread == [stack |-> <<>>, held |-> <<>>, log |-> <<>>, rv |-> NULL]

\* an effect a thread has on the outside world: a protocol request, a
\* window-system call, a heap release
Event(ev, obj) == [ev |-> ev, obj |-> obj, width |-> 0, height |-> 0, flags |-> {}]

Top(t) == Head(th[t].stack)
\* thread t is in function fn at statement pc
Loc(t, fn, pc) == th[t].stack # <<>> /\ Top(t).fn = fn /\ Top(t).pc = pc
\* thread t runs no operation
Idle(t) == th[t].stack = <<>>
\* thread t is returning from an entry point to its caller
Returning(t) == th[t].stack # <<>> /\ Top(t).pc = "done"
\* the process runs: it stops at the first undefined behaviour. A return to
\* the caller touches nothing the threads share, so it is taken at once.
Running == fault = "none" /\ \A u \in Threads : ~Returning(u)
\* thread t is in function fn at statement pc and can take its next step
At(t, fn, pc) == Loc(t, fn, pc) /\ Running

\* the thread record with the top frame replaced
WithTop(r, f) == [r EXCEPT !.stack = <<f>> \o Tail(@)]
\* ... with a callee's frame pushed and the caller waiting at pc cont
WithCall(r, cont, g) ==
    [r EXCEPT !.stack = <<g>> \o <<[Head(@) EXCEPT !.pc = cont]>> \o Tail(@)]
\* ... with the top frame popped and its return value left in rv
WithReturn(r, v) == [r EXCEPT !.stack = Tail(@), !.rv = v]
WithLog(r, e) == [r EXCEPT !.log = Append(@, e)]
WithHeld(r, l) == [r EXCEPT !.held = Append(@, l)]
RECURSIVE Without(_, _)
Without(s, l) ==
    IF s = <<>> THEN <<>>
    ELSE IF Head(s) = l THEN Tail(s) ELSE <<Head(s)>> \o Without(Tail(s), l)
WithReleased(r, l) == [r EXCEPT !.held = Without(@, l)]
Holds(t, l) == \E i \in 1..Len(th[t].held) : th[t].held[i] = l

Min(S) == CHOOSE x \in S : \A y \in S : x <= y

(* ------------------------------ registry ------------------------------- *)
\* rb_get(&win_data_rb, hwnd): the linked record with this key, or NULL
rb_get(hwnd) ==
    IF \E r \in win_data_rb : win_data[r].hwnd = hwnd
    THEN Min({r \in win_data_rb : win_data[r].hwnd = hwnd})
    ELSE NULL

wayland_win_data_get_nolock(hwnd) == rb_get(hwnd)

\* calloc: the first unused cell, NULL when the heap is exhausted
calloc_rec(hwnd) ==
    IF \E r \in RecCells(hwnd) : ~win_data[r].used
    THEN Min({r \in RecCells(hwnd) : ~win_data[r].used}) ELSE NULL

\* the functions that return a surface pointer, and those that receive it
SurfaceReturning ==
    {"WAYLAND_SetWindowText", "WAYLAND_SysCommand", "wayland_configure_window",
     "wayland_surface_lock_accel_hwnd"}

\* pointers to surface cells held anywhere in the program
SurfaceRefs ==
    {win_data[r].wayland_surface : r \in RecIds}
    \cup {window_surface_binding[h] : h \in HWNDS}
    \cup UNION {{th[t].stack[i].surface : i \in 1..Len(th[t].stack)} : t \in Threads}
    \cup {th[t].rv : t \in {u \in Threads : /\ th[u].stack # <<>>
                                            /\ Top(u).fn \in SurfaceReturning
                                            /\ Top(u).pc \in {"locked", "caller"}}}

\* the cells malloc can hand out for a surface of hwnd: released and no
\* longer pointed to
FreeSurfs(hwnd) == {s \in SurfCells(hwnd) : ~surfaces[s].alive /\ s \notin SurfaceRefs}

\* wayland_win_data_get_top_parent
wayland_win_data_get_top_parent_hwnd(hwnd) ==
    LET RECURSIVE Walk(_)
        Walk(cur) == IF GetAncestor(cur) # NULL /\ GetAncestor(cur) # Desktop
                     THEN Walk(GetAncestor(cur)) ELSE cur
    IN Walk(hwnd)

wayland_win_data_get_top_parent(data) ==
    LET cur == wayland_win_data_get_top_parent_hwnd(win_data[data].hwnd)
    IN IF cur = win_data[data].hwnd THEN NULL ELSE wayland_win_data_get_nolock(cur)

(* -------------------------------- Init --------------------------------- *)
InitCommon ==
    /\ win_data_mutex = NoThread
    /\ win_data_rb = {}
    /\ win_data = [r \in RecIds |-> FreeRec]
    /\ surfaces = [s \in SurfIds |-> FreeSurface]
    /\ window_surface_binding = [h \in HWNDS |-> NULL]
    /\ style = [h \in HWNDS |-> FALSE]
    /\ th = [t \in Threads |-> IdleThread]
    /\ fault = "none"
    /\ next_serial = 1
    /\ superseded = {}

Init == InitCommon /\ budget = [t \in Threads |-> IF t = "t1" THEN MaxSeqOps ELSE 0]

InitThreads == InitCommon /\ budget = [t \in Threads |-> MaxOps]

\* the variables an action leaves alone, by group
UnchangedRegistry == UNCHANGED <<win_data_mutex, win_data_rb, win_data>>
UnchangedEnv == UNCHANGED <<style, budget, fault, next_serial, superseded>>

(* --------------------------- mutex helpers ----------------------------- *)
\* faulty variant: the unlock leaves the owner of the registry lock in place
RegistryKept(t) == win_data_mutex

\* pthread_mutex_unlock(&win_data_mutex) by t: unlocking a mutex the thread
\* does not hold is undefined
RegistryAfterUnlock(t) == IF win_data_mutex = t THEN NoThread ELSE win_data_mutex
FaultAfterRegistryUnlock(t) == IF win_data_mutex = t THEN fault ELSE "bad_unlock"

\* pthread_mutex_unlock(&surface->mutex) by t, on the surface heap S
SurfacesAfterUnlock(S, s, t) ==
    IF S[s].alive /\ S[s].mutex = t THEN [S EXCEPT ![s].mutex = NoThread] ELSE S
FaultAfterSurfaceUnlock(S, s, t) ==
    IF ~S[s].alive THEN "use_after_free"
    ELSE IF S[s].mutex # t THEN "bad_unlock" ELSE fault

\* pthread_mutex_lock(&surface->mutex) by t, then continue at pc npc; blocks
\* while another thread (or t itself) holds it; locking released memory is
\* undefined
AcquireSurface(t, s, npc) ==
    IF ~surfaces[s].alive
    THEN /\ fault' = "use_after_free"
         /\ UNCHANGED <<win_data_mutex, win_data_rb, win_data, surfaces,
                        window_surface_binding, style, th, budget, next_serial, superseded>>
    ELSE /\ surfaces[s].mutex = NoThread
         /\ surfaces' = [surfaces EXCEPT ![s].mutex = t]
         /\ th' = [th EXCEPT ![t] = WithHeld(WithTop(th[t], [Top(t) EXCEPT !.pc = npc]), s)]
         /\ UnchangedRegistry /\ UnchangedEnv
         /\ UNCHANGED window_surface_binding

(* ------------------ external code: wayland_surface.c ------------------- *)
\* wayland_surface_create(hwnd): a fresh role-less surface in cell s
wayland_surface_create(S, s, hwnd) ==
    [S EXCEPT ![s] = [FreeSurface EXCEPT !.alive = TRUE, !.hwnd = hwnd]]

\* wayland_surface_destroy(surface): waits for the surface's mutex, then
\* releases the surface
CanDestroySurface(s) == ~surfaces[s].alive \/ surfaces[s].mutex = NoThread
wayland_surface_destroy(S, s) == [S EXCEPT ![s] = FreeSurface]
FaultAfterDestroy(s) == IF surfaces[s].alive THEN fault ELSE "use_after_free"

\* wayland_surface_clear_role: the live role objects go, the surface stays
wayland_surface_clear_role(S, s) ==
    [S EXCEPT ![s].xdg_toplevel = FALSE, ![s].wl_subsurface = FALSE,
              ![s].parent_weak_ref = NULL]

wayland_surface_make_toplevel(S, s) ==
    [S EXCEPT ![s].xdg_toplevel = TRUE, ![s].role = "TOPLEVEL"]

wayland_surface_make_subsurface(S, s, parent) ==
    [S EXCEPT ![s].wl_subsurface = TRUE, ![s].role = "SUBSURFACE",
              ![s].parent_weak_ref = S[parent].hwnd]

(* ------------------------ wayland_win_data_get ------------------------- *)
\* the frames of a call of wayland_win_data_get(hwnd)
GetFrame(hwnd) == Frame("wayland_win_data_get", "lock", hwnd)

\* pthread_mutex_lock; return the record locked, or unlock and return NULL
wayland_win_data_get(t) ==
    /\ At(t, "wayland_win_data_get", "lock")
    /\ win_data_mutex = NoThread
    /\ LET data == wayland_win_data_get_nolock(Top(t).hwnd) IN
       IF data # NULL
       THEN /\ win_data_mutex' = t
            /\ th' = [th EXCEPT ![t] = WithHeld(WithReturn(th[t], data), Registry)]
       ELSE /\ win_data_mutex' = NoThread
            /\ th' = [th EXCEPT ![t] = WithReturn(th[t], NULL)]
    /\ UNCHANGED <<win_data_rb, win_data, surfaces, window_surface_binding>>
    /\ UnchangedEnv

(* ---------------------- wayland_surface_lock_hwnd ---------------------- *)
LockHwndFrame(hwnd) == Frame("wayland_surface_lock_hwnd", "got", hwnd)

\* line 884-886, no record or no surface: release and return NULL
wayland_surface_lock_hwnd_none(t) ==
    /\ At(t, "wayland_surface_lock_hwnd", "got")
    /\ IF th[t].rv = NULL THEN TRUE ELSE win_data[th[t].rv].wayland_surface = NULL
    /\ IF th[t].rv = NULL
       THEN /\ th' = [th EXCEPT ![t] = WithReturn(th[t], NULL)]
            /\ UNCHANGED <<win_data_mutex, fault>>
       ELSE /\ th' = [th EXCEPT ![t] = WithReleased(WithReturn(th[t], NULL), Registry)]
            /\ win_data_mutex' = RegistryAfterUnlock(t)
            /\ fault' = FaultAfterRegistryUnlock(t)
    /\ UNCHANGED <<win_data_rb, win_data, surfaces, window_surface_binding,
                   style, budget, next_serial, superseded>>

\* line 886: lock the record's surface while the registry is held
wayland_surface_lock_hwnd_lock(t) ==
    /\ At(t, "wayland_surface_lock_hwnd", "got")
    /\ th[t].rv # NULL
    /\ win_data[th[t].rv].wayland_surface # NULL
    /\ LET s == win_data[th[t].rv].wayland_surface IN
       IF ~surfaces[s].alive
       THEN /\ fault' = "use_after_free"
            /\ UNCHANGED <<surfaces, th>>
       ELSE /\ surfaces[s].mutex = NoThread
            /\ surfaces' = [surfaces EXCEPT ![s].mutex = t]
            /\ th' = [th EXCEPT ![t] =
                   WithHeld(WithTop(th[t], [Top(t) EXCEPT !.pc = "release", !.surface = s]), s)]
            /\ UNCHANGED fault
    /\ UnchangedRegistry
    /\ UNCHANGED <<window_surface_binding, style, budget, next_serial, superseded>>

\* line 888-890: release the registry and return the locked surface
wayland_surface_lock_hwnd_release(t) ==
    /\ At(t, "wayland_surface_lock_hwnd", "release")
    /\ th' = [th EXCEPT ![t] = WithReleased(WithReturn(th[t], Top(t).surface), Registry)]
    /\ win_data_mutex' = RegistryAfterUnlock(t)
    /\ fault' = FaultAfterRegistryUnlock(t)
    /\ UNCHANGED <<win_data_rb, win_data, surfaces, window_surface_binding,
                   style, budget, next_serial, superseded>>

(* ---------------- wayland_win_data_needs_wayland_surface --------------- *)
NeedsFrame(data, pdata) ==
    [Frame("needs_wayland_surface", "start", win_data[data].hwnd)
        EXCEPT !.data = data, !.pdata = pdata]

\* the boolean results are returned as 1 and 0
TRUE_ == 1
FALSE_ == 0

\* line 235-238: a top-level window wants a surface
needs_wayland_surface_toplevel(t) ==
    /\ At(t, "needs_wayland_surface", "start")
    /\ GetAncestor(Top(t).hwnd) \in {NULL, Desktop}
    /\ th' = [th EXCEPT ![t] = WithReturn(th[t], TRUE_)]
    /\ UnchangedRegistry /\ UnchangedEnv
    /\ UNCHANGED <<surfaces, window_surface_binding>>

\* line 241: a child without a surface of its own goes on to the anchor
needs_wayland_surface_no_own(t) ==
    /\ At(t, "needs_wayland_surface", "start")
    /\ GetAncestor(Top(t).hwnd) \notin {NULL, Desktop}
    /\ win_data[Top(t).data].wayland_surface = NULL
    /\ th' = [th EXCEPT ![t] = WithTop(th[t], [Top(t) EXCEPT !.pc = "parent"])]
    /\ UnchangedRegistry /\ UnchangedEnv
    /\ UNCHANGED <<surfaces, window_surface_binding>>

\* line 244: probe the record's own surface
needs_wayland_surface_lock_own(t) ==
    /\ At(t, "needs_wayland_surface", "start")
    /\ GetAncestor(Top(t).hwnd) \notin {NULL, Desktop}
    /\ win_data[Top(t).data].wayland_surface # NULL
    /\ AcquireSurface(t, win_data[Top(t).data].wayland_surface, "own_locked")

\* faulty variant: the probe of the window's own surface returns without
\* releasing the surface's lock
needs_wayland_surface_own_kept(t) ==
    /\ At(t, "needs_wayland_surface", "own_locked")
    /\ LET s == win_data[Top(t).data].wayland_surface
           has_client == surfaces[s].client
       IN th' = [th EXCEPT ![t] =
              IF has_client THEN WithReturn(th[t], TRUE_)
              ELSE WithTop(th[t], [Top(t) EXCEPT !.pc = "parent"])]
    /\ UnchangedRegistry /\ UnchangedEnv
    /\ UNCHANGED <<surfaces, window_surface_binding>>

\* line 245-247
needs_wayland_surface_own_locked(t) ==
    /\ At(t, "needs_wayland_surface", "own_locked")
    /\ LET s == win_data[Top(t).data].wayland_surface
           has_client == surfaces[s].client
           r == WithReleased(th[t], s)
       IN /\ surfaces' = SurfacesAfterUnlock(surfaces, s, t)
          /\ fault' = FaultAfterSurfaceUnlock(surfaces, s, t)
          /\ th' = [th EXCEPT ![t] =
                 IF has_client THEN WithReturn(r, TRUE_)
                 ELSE WithTop(r, [Top(t) EXCEPT !.pc = "parent"])]
    /\ UnchangedRegistry
    /\ UNCHANGED <<window_surface_binding, style, budget, next_serial, superseded>>

\* line 252 with parent_data == NULL: parent_data->wayland_surface reads
\* through a null pointer
needs_wayland_surface_null_parent(t) ==
    /\ At(t, "needs_wayland_surface", "parent")
    /\ Top(t).pdata = NULL
    /\ fault' = "null_dereference"
    /\ UNCHANGED <<win_data_mutex, win_data_rb, win_data, surfaces, window_surface_binding,
                   style, th, budget, next_serial, superseded>>

\* line 252, 261: the anchor has no surface
needs_wayland_surface_no_parent_surface(t) ==
    /\ At(t, "needs_wayland_surface", "parent")
    /\ Top(t).pdata # NULL
    /\ win_data[Top(t).pdata].wayland_surface = NULL
    /\ th' = [th EXCEPT ![t] = WithReturn(th[t], FALSE_)]
    /\ UnchangedRegistry /\ UnchangedEnv
    /\ UNCHANGED <<surfaces, window_surface_binding>>

\* line 255: the anchor probe
needs_wayland_surface_lock_parent(t) ==
    /\ At(t, "needs_wayland_surface", "parent")
    /\ Top(t).pdata # NULL
    /\ win_data[Top(t).pdata].wayland_surface # NULL
    /\ AcquireSurface(t, win_data[Top(t).pdata].wayland_surface, "parent_locked")

\* line 256-261
needs_wayland_surface_parent_locked(t) ==
    /\ At(t, "needs_wayland_surface", "parent_locked")
    /\ LET s == win_data[Top(t).pdata].wayland_surface
           parent_has_client == surfaces[s].client
       IN /\ surfaces' = SurfacesAfterUnlock(surfaces, s, t)
          /\ fault' = FaultAfterSurfaceUnlock(surfaces, s, t)
          /\ th' = [th EXCEPT ![t] =
                 WithReturn(WithReleased(th[t], s),
                            IF parent_has_client THEN TRUE_ ELSE FALSE_)]
    /\ UnchangedRegistry
    /\ UNCHANGED <<window_surface_binding, style, budget, next_serial, superseded>>

(* --------------------------- operation frames -------------------------- *)
\* thread t may call an entry point of the driver
MayEnter(t) ==
    /\ Running
    /\ Idle(t)
    /\ budget[t] > 0

\* a thread enters the driver: its stack becomes the given frames
Enter(t, frames) ==
    /\ MayEnter(t)
    /\ th' = [th EXCEPT ![t] = [IdleThread EXCEPT !.stack = frames]]
    /\ budget' = [budget EXCEPT ![t] = @ - 1]

\* a thread enters the driver through an entry point whose first statement
\* is wayland_win_data_get(hwnd), directly or through
\* wayland_surface_lock_hwnd: the call and the lookup under the lock are one
\* step, and frames are the callers of wayland_win_data_get
EnterGet(t, hwnd, frames) ==
    /\ MayEnter(t)
    /\ win_data_mutex = NoThread
    /\ LET data == wayland_win_data_get_nolock(hwnd) IN
       /\ win_data_mutex' = IF data # NULL THEN t ELSE NoThread
       /\ th' = [th EXCEPT ![t] =
              [IdleThread EXCEPT !.stack = frames, !.rv = data,
                                 !.held = IF data # NULL THEN <<Registry>> ELSE <<>>]]
    /\ budget' = [budget EXCEPT ![t] = @ - 1]
    /\ UNCHANGED <<win_data_rb, win_data>>

\* the entry point returns v: its locals are gone; the thread is at "done",
\* with the effects of the operation, until the caller resumes
WithDone(r, v) ==
    [WithTop(r, Frame(Head(r.stack).fn, "done", Head(r.stack).hwnd)) EXCEPT !.rv = v]

\* the caller of the entry point resumes
Return(t) ==
    /\ fault = "none"
    /\ Returning(t)
    /\ th' = [th EXCEPT ![t] = IdleThread]
    /\ UnchangedRegistry /\ UnchangedEnv
    /\ UNCHANGED <<surfaces, window_surface_binding>>

(* ------------------------ wayland_win_data_create ---------------------- *)
CreateFrame(hwnd) == Frame("wayland_win_data_create", "start", hwnd)

\* line 92-94: no record for the desktop or a message-only window
wayland_win_data_create_refused(t) ==
    /\ At(t, "wayland_win_data_create", "start")
    /\ LET parent == GetAncestor(Top(t).hwnd) IN
       \/ parent = NULL
       \/ parent # Desktop /\ GetAncestor(parent) = NULL
    /\ th' = [th EXCEPT ![t] = WithReturn(th[t], NULL)]
    /\ UnchangedRegistry /\ UnchangedEnv
    /\ UNCHANGED <<surfaces, window_surface_binding>>

\* line 96: calloc fails
wayland_win_data_create_nomem(t) ==
    /\ At(t, "wayland_win_data_create", "start")
    /\ GetAncestor(Top(t).hwnd) # NULL
    /\ th' = [th EXCEPT ![t] = WithReturn(th[t], NULL)]
    /\ UnchangedRegistry /\ UnchangedEnv
    /\ UNCHANGED <<surfaces, window_surface_binding>>

\* line 96-101: the record is allocated and filled in, outside the lock
wayland_win_data_create_alloc(t) ==
    /\ At(t, "wayland_win_data_create", "start")
    /\ GetAncestor(Top(t).hwnd) # NULL
    /\ calloc_rec(Top(t).hwnd) # NULL
    /\ LET data == calloc_rec(Top(t).hwnd) IN
       /\ win_data' = [win_data EXCEPT ![data] =
              [FreeRec EXCEPT !.used = TRUE, !.hwnd = Top(t).hwnd]]
       /\ th' = [th EXCEPT ![t] =
              WithTop(th[t], [Top(t) EXCEPT !.pc = "lock", !.data = data])]
    /\ UNCHANGED <<win_data_mutex, win_data_rb, surfaces, window_surface_binding>>
    /\ UnchangedEnv

\* rb_put(&win_data_rb, hwnd, &data->entry)
rb_put(rb, data) == rb \cup {data}

\* faulty variant: the lookup under the lock is left out
NotRechecked(hwnd) == NULL

\* line 106: has another thread already linked a record for this window
AlreadyCreated(hwnd) == rb_get(hwnd)

\* line 103-116: under the lock, keep the record that is already linked and
\* free the new one, or link the new one
wayland_win_data_create_lock(t) ==
    /\ At(t, "wayland_win_data_create", "lock")
    /\ win_data_mutex = NoThread
    /\ win_data_mutex' = t
    /\ LET data == Top(t).data
           rb_entry == AlreadyCreated(Top(t).hwnd)
       IN IF rb_entry # NULL
          THEN /\ win_data' = [win_data EXCEPT ![data] = FreeRec]
               /\ win_data_rb' = win_data_rb
               /\ th' = [th EXCEPT ![t] =
                      WithLog(WithHeld(WithReturn(th[t], rb_entry), Registry),
                              Event("free_win_data", data))]
          ELSE /\ win_data_rb' = rb_put(win_data_rb, data)
               /\ win_data' = win_data
               /\ th' = [th EXCEPT ![t] =
                      WithLog(WithHeld(WithReturn(th[t], data), Registry),
                              Event("rb_put", data))]
    /\ UNCHANGED <<surfaces, window_surface_binding>>
    /\ UnchangedEnv

(* ----------------------- WAYLAND_WindowPosChanging --------------------- *)
WAYLAND_WindowPosChanging(t) ==
    /\ \E h \in HWNDS \cup {Desktop} :
         EnterGet(t, h, <<Frame("WAYLAND_WindowPosChanging", "got", h)>>)
    /\ UNCHANGED <<surfaces, window_surface_binding, style, fault, next_serial, superseded>>

\* line 578: no record yet, create one
WindowPosChanging_create(t) ==
    /\ At(t, "WAYLAND_WindowPosChanging", "got")
    /\ th[t].rv = NULL
    /\ th' = [th EXCEPT ![t] = WithCall(th[t], "created", CreateFrame(Top(t).hwnd))]
    /\ UnchangedRegistry /\ UnchangedEnv
    /\ UNCHANGED <<surfaces, window_surface_binding>>

\* line 578-579: create gave no record, use the default surface
WindowPosChanging_no_data(t) ==
    /\ At(t, "WAYLAND_WindowPosChanging", "created")
    /\ th[t].rv = NULL
    /\ th' = [th EXCEPT ![t] = WithDone(th[t], FALSE_)]
    /\ UnchangedRegistry /\ UnchangedEnv
    /\ UNCHANGED <<surfaces, window_surface_binding>>

\* line 583-591 for a top-level window: ret = TRUE, release
WindowPosChanging_toplevel(t) ==
    /\ \/ At(t, "WAYLAND_WindowPosChanging", "got")
       \/ At(t, "WAYLAND_WindowPosChanging", "created")
    /\ th[t].rv # NULL
    /\ GetAncestor(Top(t).hwnd) \in {NULL, Desktop}
    /\ th' = [th EXCEPT ![t] = WithReleased(WithDone(th[t], TRUE_), Registry)]
    /\ win_data_mutex' = RegistryAfterUnlock(t)
    /\ fault' = FaultAfterRegistryUnlock(t)
    /\ UNCHANGED <<win_data_rb, win_data, surfaces, window_surface_binding,
                   style, budget, next_serial, superseded>>

\* line 584-585 for a child window: ask needs_wayland_surface
WindowPosChanging_child(t) ==
    /\ \/ At(t, "WAYLAND_WindowPosChanging", "got")
       \/ At(t, "WAYLAND_WindowPosChanging", "created")
    /\ th[t].rv # NULL
    /\ GetAncestor(Top(t).hwnd) \notin {NULL, Desktop}
    /\ LET data == th[t].rv IN
       th' = [th EXCEPT ![t] =
           [WithCall(WithTop(th[t], [Top(t) EXCEPT !.data = data]), "needs_ret",
                     NeedsFrame(data, wayland_win_data_get_top_parent(data)))
              EXCEPT !.rv = NULL]]
    /\ UnchangedRegistry /\ UnchangedEnv
    /\ UNCHANGED <<surfaces, window_surface_binding>>

\* line 586-592
WindowPosChanging_needs_ret(t) ==
    /\ At(t, "WAYLAND_WindowPosChanging", "needs_ret")
    /\ th' = [th EXCEPT ![t] = WithReleased(WithDone(th[t], th[t].rv), Registry)]
    /\ win_data_mutex' = RegistryAfterUnlock(t)
    /\ fault' = FaultAfterRegistryUnlock(t)
    /\ UNCHANGED <<win_data_rb, win_data, surfaces, window_surface_binding,
                   style, budget, next_serial, superseded>>

(* ------------------------- WAYLAND_DestroyWindow ----------------------- *)
WAYLAND_DestroyWindow(t) ==
    /\ \E h \in HWNDS : EnterGet(t, h, <<Frame("WAYLAND_DestroyWindow", "got", h)>>)
    /\ UNCHANGED <<surfaces, window_surface_binding, style, fault, next_serial, superseded>>

\* line 559: no record
DestroyWindow_no_data(t) ==
    /\ At(t, "WAYLAND_DestroyWindow", "got")
    /\ th[t].rv = NULL
    /\ th' = [th EXCEPT ![t] = WithDone(th[t], NULL)]
    /\ UnchangedRegistry /\ UnchangedEnv
    /\ UNCHANGED <<surfaces, window_surface_binding>>

\* faulty variant: the record is unlinked but the registry lock is kept for
\* the teardown of the surfaces
destroy_remove_locked(t) ==
    /\ At(t, "WAYLAND_DestroyWindow", "got")
    /\ th[t].rv # NULL
    /\ LET data == th[t].rv IN
       /\ win_data_rb' = win_data_rb \ {data}
       /\ th' = [th EXCEPT ![t] =
              [WithLog(WithTop(th[t],
                    [Top(t) EXCEPT !.pc = "window_surface", !.data = data,
                                   !.surface = win_data[data].wayland_surface,
                                   !.arg = win_data[data].window_surface]),
                    Event("rb_remove", data)) EXCEPT !.rv = NULL]]
    /\ UNCHANGED <<win_data_mutex, win_data, surfaces, window_surface_binding>>
    /\ UnchangedEnv

\* faulty variant: the registry is unlocked with the record still linked
destroy_remove_linked(t) ==
    /\ At(t, "WAYLAND_DestroyWindow", "got")
    /\ th[t].rv # NULL
    /\ LET data == th[t].rv IN
       th' = [th EXCEPT ![t] =
              [WithReleased(WithTop(th[t],
                    [Top(t) EXCEPT !.pc = "window_surface", !.data = data,
                                   !.surface = win_data[data].wayland_surface,
                                   !.arg = win_data[data].window_surface]),
                    Registry) EXCEPT !.rv = NULL]]
    /\ win_data_mutex' = RegistryAfterUnlock(t)
    /\ fault' = FaultAfterRegistryUnlock(t)
    /\ UNCHANGED <<win_data_rb, win_data, surfaces, window_surface_binding,
                   style, budget, next_serial, superseded>>

\* wayland_win_data_destroy, line 126-128: unlink the record, unlock
wayland_win_data_destroy_remove(t) ==
    /\ At(t, "WAYLAND_DestroyWindow", "got")
    /\ th[t].rv # NULL
    /\ LET data == th[t].rv IN
       /\ win_data_rb' = win_data_rb \ {data}
       /\ th' = [th EXCEPT ![t] =
              [WithReleased(WithLog(WithTop(th[t],
                    [Top(t) EXCEPT !.pc = "window_surface", !.data = data,
                                   !.surface = win_data[data].wayland_surface,
                                   !.arg = win_data[data].window_surface]),
                    Event("rb_remove", data)), Registry) EXCEPT !.rv = NULL]]
    /\ win_data_mutex' = RegistryAfterUnlock(t)
    /\ fault' = FaultAfterRegistryUnlock(t)
    /\ UNCHANGED <<win_data, surfaces, window_surface_binding,
                   style, budget, next_serial, superseded>>

\* faulty variant: the window surface is neither detached nor released
\* before the wayland surface is destroyed
destroy_window_surface_skipped(t) ==
    /\ At(t, "WAYLAND_DestroyWindow", "window_surface")
    /\ th' = [th EXCEPT ![t] = WithTop(th[t], [Top(t) EXCEPT !.pc = "wayland_surface"])]
    /\ UnchangedRegistry /\ UnchangedEnv
    /\ UNCHANGED <<surfaces, window_surface_binding>>

\* line 130-134: detach and release the window surface
wayland_win_data_destroy_window_surface(t) ==
    /\ At(t, "WAYLAND_DestroyWindow", "window_surface")
    /\ LET data == Top(t).data
           r == WithTop(th[t], [Top(t) EXCEPT !.pc = "wayland_surface"])
       IN IF win_data[data].window_surface
          THEN /\ window_surface_binding' =
                      [window_surface_binding EXCEPT ![win_data[data].hwnd] = NULL]
               /\ th' = [th EXCEPT ![t] =
                      WithLog(WithLog(r, Event("window_surface_unbind", win_data[data].hwnd)),
                              Event("window_surface_release", win_data[data].hwnd))]
          ELSE /\ UNCHANGED window_surface_binding
               /\ th' = [th EXCEPT ![t] = r]
    /\ UnchangedRegistry /\ UnchangedEnv
    /\ UNCHANGED surfaces

\* line 135-136 and 561: destroy the surface, free the record
wayland_win_data_destroy_wayland_surface(t) ==
    /\ At(t, "WAYLAND_DestroyWindow", "wayland_surface")
    /\ LET data == Top(t).data
           s == win_data[data].wayland_surface
           r == [WithDone(th[t], NULL) EXCEPT !.stack[1].data = NULL]
       IN /\ win_data' = [win_data EXCEPT ![data] = FreeRec]
          /\ IF s # NULL
             THEN /\ CanDestroySurface(s)
                  /\ surfaces' = wayland_surface_destroy(surfaces, s)
                  /\ fault' = FaultAfterDestroy(s)
                  /\ superseded' = {p \in superseded : p[1] # s}
                  /\ th' = [th EXCEPT ![t] =
                         WithLog(WithLog(r, Event("wayland_surface_destroy", s)),
                                 Event("free_win_data", data))]
             ELSE /\ UNCHANGED <<surfaces, fault, superseded>>
                  /\ th' = [th EXCEPT ![t] = WithLog(r, Event("free_win_data", data))]
    /\ UNCHANGED <<win_data_mutex, win_data_rb, window_surface_binding,
                   style, budget, next_serial>>

(* ------------------------- wayland_window_flush ------------------------ *)
wayland_window_flush(t) ==
    /\ \E h \in HWNDS : EnterGet(t, h, <<Frame("wayland_window_flush", "got", h)>>)
    /\ UNCHANGED <<surfaces, window_surface_binding, style, fault, next_serial, superseded>>

\* line 866-871
wayland_window_flush_got(t) ==
    /\ At(t, "wayland_window_flush", "got")
    /\ IF th[t].rv = NULL
       THEN /\ th' = [th EXCEPT ![t] = WithDone(th[t], NULL)]
            /\ UNCHANGED <<win_data_mutex, fault>>
       ELSE /\ th' = [th EXCEPT ![t] =
                   LET r == WithReleased(WithDone(th[t], NULL), Registry) IN
                   IF win_data[th[t].rv].window_surface
                   THEN WithLog(r, Event("window_surface_flush", Top(t).hwnd)) ELSE r]
            /\ win_data_mutex' = RegistryAfterUnlock(t)
            /\ fault' = FaultAfterRegistryUnlock(t)
    /\ UNCHANGED <<win_data_rb, win_data, surfaces, window_surface_binding,
                   style, budget, next_serial, superseded>>

(* -------------------------- WAYLAND_SetWindowText ---------------------- *)
\* the surface locks a thread record holds
HeldSurfaces(r) == {r.held[i] : i \in 1..Len(r.held)} \ {Registry}

\* wl_display_flush(process_wayland.wl_display), noting whether the caller
\* holds a surface lock at the call
FlushEvent(r) ==
    [Event("wl_display_flush", NULL) EXCEPT
        !.flags = IF HeldSurfaces(r) # {} THEN {"surface_locked"} ELSE {}]

WAYLAND_SetWindowText(t) ==
    /\ \E h \in HWNDS :
         EnterGet(t, h, <<LockHwndFrame(h), Frame("WAYLAND_SetWindowText", "locked", h)>>)
    /\ UNCHANGED <<surfaces, window_surface_binding, style, fault, next_serial, superseded>>

\* faulty variant: the caller still holds the surface's lock when it looks
\* the record up, taking the registry lock second
SetWindowText_lookup(t) ==
    /\ At(t, "WAYLAND_SetWindowText", "locked")
    /\ th' = [th EXCEPT ![t] =
           IF th[t].rv = NULL THEN WithDone(th[t], NULL)
           ELSE WithCall(th[t], "looked_up", GetFrame(Top(t).hwnd))]
    /\ UnchangedRegistry /\ UnchangedEnv
    /\ UNCHANGED <<surfaces, window_surface_binding>>

\* line 801-805
SetWindowText_locked(t) ==
    /\ At(t, "WAYLAND_SetWindowText", "locked")
    /\ LET s == th[t].rv IN
       IF s = NULL
       THEN /\ th' = [th EXCEPT ![t] = WithDone(th[t], NULL)]
            /\ UNCHANGED <<surfaces, fault>>
       ELSE /\ surfaces' = SurfacesAfterUnlock(surfaces, s, t)
            /\ fault' = FaultAfterSurfaceUnlock(surfaces, s, t)
            /\ th' = [th EXCEPT ![t] =
                   LET r == WithReleased(WithDone(th[t], NULL), s) IN
                   IF surfaces[s].xdg_toplevel
                   THEN WithLog(r, Event("wayland_surface_set_title", s)) ELSE r]
    /\ UnchangedRegistry
    /\ UNCHANGED <<window_surface_binding, style, budget, next_serial, superseded>>

(* --------------------------- WAYLAND_SysCommand ------------------------ *)
SC_MOVE == "SC_MOVE"
SC_SIZE == "SC_SIZE"
SC_OTHER == "SC_OTHER"
\* the serial of the last pointer button press, when there was one
ButtonSerial == 7
NotHandled == -1

\* line 813-829: a command other than move and size only flushes; the
\* button serial read under the pointer mutex (line 820-825) is given a value
\* where it is used
WAYLAND_SysCommand(t) ==
    /\ \E h \in HWNDS, command \in {SC_MOVE, SC_SIZE, SC_OTHER} :
         LET f == [Frame("WAYLAND_SysCommand", "locked", h) EXCEPT !.cmd = command]
         IN IF command \in {SC_MOVE, SC_SIZE}
            THEN EnterGet(t, h, <<LockHwndFrame(h), f>>)
            ELSE /\ MayEnter(t)
                 /\ budget' = [budget EXCEPT ![t] = @ - 1]
                 /\ th' = [th EXCEPT ![t] =
                        WithLog(WithDone([IdleThread EXCEPT !.stack = <<f>>], NotHandled),
                                FlushEvent(IdleThread))]
                 /\ UnchangedRegistry
    /\ UNCHANGED <<surfaces, window_surface_binding, style, fault, next_serial, superseded>>

\* faulty variant: the request is sent without a button serial
MayRequestAnySerial(wl_seat, surface, button_serial) ==
    wl_seat /\ surface.xdg_toplevel

\* line 835: the request needs a seat, a toplevel role and a button serial
MayRequest(wl_seat, surface, button_serial) ==
    wl_seat /\ surface.xdg_toplevel /\ button_serial # 0

\* line 822-827, 831-854: button_serial is the stored serial when the pointer
\* focus is on the window and 0 otherwise; the locals button_serial, wl_seat
\* and surface keep their values up to the return
SysCommand_locked(t) ==
    /\ At(t, "WAYLAND_SysCommand", "locked")
    /\ \E wl_seat \in BOOLEAN, focused \in BOOLEAN, stored \in {0, ButtonSerial} :
       LET s == th[t].rv
           button_serial == IF focused THEN stored ELSE 0
           f == Top(t)
       IN IF s = NULL
          THEN /\ th' = [th EXCEPT ![t] =
                      WithLog([WithDone(th[t], NotHandled) EXCEPT
                                  !.stack[1].cmd = f.cmd,
                                  !.stack[1].serial = button_serial],
                              FlushEvent(th[t]))]
               /\ UNCHANGED <<surfaces, fault>>
          ELSE /\ surfaces' = SurfacesAfterUnlock(surfaces, s, t)
               /\ fault' = FaultAfterSurfaceUnlock(surfaces, s, t)
               /\ th' = [th EXCEPT ![t] =
                      LET r == WithReleased([WithDone(th[t], 0) EXCEPT
                                                !.stack[1].cmd = f.cmd,
                                                !.stack[1].serial = button_serial,
                                                !.stack[1].surface = s,
                                                !.stack[1].arg = wl_seat], s)
                          q == IF MayRequest(wl_seat, surfaces[s], button_serial)
                               THEN WithLog(r, [Event(IF f.cmd = SC_MOVE
                                                      THEN "xdg_toplevel_move"
                                                      ELSE "xdg_toplevel_resize", s)
                                                  EXCEPT !.width = button_serial])
                               ELSE r
                      IN WithLog(q, FlushEvent(q))]
    /\ UnchangedRegistry
    /\ UNCHANGED <<window_surface_binding, style, budget, next_serial, superseded>>

(* ------------------------ wayland_configure_window --------------------- *)
SWP_FRAMECHANGED == "SWP_FRAMECHANGED"
SWP_NOSIZE == "SWP_NOSIZE"
SWP_NOACTIVATE == "SWP_NOACTIVATE"
SWP_NOZORDER == "SWP_NOZORDER"
SWP_NOOWNERZORDER == "SWP_NOOWNERZORDER"
SWP_NOMOVE == "SWP_NOMOVE"
SWP_NOSENDCHANGING == "SWP_NOSENDCHANGING"

\* wayland_surface_coords_to_window at the default scale of 96 dpi
Scale == 1
wayland_surface_coords_to_window(x) == x * Scale

\* WM_WAYLAND_CONFIGURE arrives for a window
wayland_configure_window(t) ==
    /\ \E h \in HWNDS :
         EnterGet(t, h, <<LockHwndFrame(h), Frame("wayland_configure_window", "locked", h)>>)
    /\ UNCHANGED <<surfaces, window_surface_binding, style, fault, next_serial, superseded>>

\* faulty variant: a handled request is not recognised
NeverHandled(surface) == FALSE

\* line 653: the requested configure event is already handled
AlreadyHandled(surface) == surface.requested.serial = 0

\* faulty variant: the snapshot being processed is kept instead of the
\* requested one
PromoteKept(surface) == surface.processing

\* line 660: the snapshot that becomes the one being processed
Promote(surface) == surface.requested

\* faulty variant: the requested snapshot is left in place after the promotion
RequestedKept(surface) == surface.requested

\* line 661: the requested snapshot is zeroed in the same critical section
ResetRequested(surface) == NoConfig

\* faulty variant: a drain that returns early for a sub-surface marks its
\* configuration as processed
wayland_configure_window_return_marking(t) ==
    /\ At(t, "wayland_configure_window", "locked")
    /\ LET s == th[t].rv IN
       /\ IF s = NULL THEN TRUE
          ELSE ~surfaces[s].xdg_toplevel \/ AlreadyHandled(surfaces[s])
       /\ IF s = NULL
          THEN /\ th' = [th EXCEPT ![t] = WithDone(th[t], NULL)]
               /\ UNCHANGED <<surfaces, fault>>
          ELSE LET S1 == IF surfaces[s].wl_subsurface
                         THEN [surfaces EXCEPT ![s].processing.serial = 1,
                                               ![s].processing.processed = TRUE]
                         ELSE surfaces
               IN /\ surfaces' = SurfacesAfterUnlock(S1, s, t)
                  /\ fault' = FaultAfterSurfaceUnlock(S1, s, t)
                  /\ th' = [th EXCEPT ![t] =
                         WithReleased([WithDone(th[t], NULL) EXCEPT !.stack[1].surface = s],
                                      s)]
    /\ UnchangedRegistry
    /\ UNCHANGED <<window_surface_binding, style, budget, next_serial, superseded>>

\* line 644-658: no surface, no toplevel role, or no requested snapshot; the
\* local surface keeps its value up to the return
wayland_configure_window_return(t) ==
    /\ At(t, "wayland_configure_window", "locked")
    /\ LET s == th[t].rv IN
       /\ IF s = NULL THEN TRUE
          ELSE ~surfaces[s].xdg_toplevel \/ AlreadyHandled(surfaces[s])
       /\ IF s = NULL
          THEN /\ th' = [th EXCEPT ![t] = WithDone(th[t], NULL)]
               /\ UNCHANGED <<surfaces, fault>>
          ELSE /\ surfaces' = SurfacesAfterUnlock(surfaces, s, t)
               /\ fault' = FaultAfterSurfaceUnlock(surfaces, s, t)
               /\ th' = [th EXCEPT ![t] =
                      WithReleased([WithDone(th[t], NULL) EXCEPT !.stack[1].surface = s], s)]
    /\ UnchangedRegistry
    /\ UNCHANGED <<window_surface_binding, style, budget, next_serial, superseded>>

\* faulty variant: the size is forced on a fullscreen window as well
ResizesFullscreen(surface, compatible) == FALSE

\* line 707-710: the window is fullscreen and its size is compatible with the
\* snapshot being processed
KeepsFullscreenSize(surface, compatible) ==
    FULLSCREEN \in surface.window.state /\ compatible

\* faulty variant: the size hint is used whatever the state
SizeHintAlways(processing) == <<processing.width, processing.height>>

\* line 663-674: the size hint counts only with a state that requires strict
\* size adherence
SizeHint(processing) ==
    IF processing.state # {} THEN <<processing.width, processing.height>> ELSE <<0, 0>>

\* faulty variant: the end of an interactive resize is not noticed
SizeMoveEnterOnly(state, resizing) ==
    [enter |-> RESIZING \in state /\ ~resizing, exit |-> FALSE]

\* line 676-686: an interactive resize begins or ends
SizeMove(state, resizing) ==
    [enter |-> RESIZING \in state /\ ~resizing,
     exit |-> RESIZING \notin state /\ resizing]

\* line 660-716: promote requested to processing and work out the geometry
\* call; wayland_surface_config_is_compatible is asked only for a fullscreen
\* window, and the local arg keeps its answer
wayland_configure_window_promote(t) ==
    /\ At(t, "wayland_configure_window", "locked")
    /\ th[t].rv # NULL
    /\ surfaces[th[t].rv].xdg_toplevel
    /\ ~AlreadyHandled(surfaces[th[t].rv])
    /\ \E compatible \in IF FULLSCREEN \in surfaces[th[t].rv].window.state
                         THEN BOOLEAN ELSE {FALSE} :
       LET s == th[t].rv
           surface == surfaces[s]
           processing == Promote(surface)
           state == processing.state
           width == SizeHint(processing)[1]
           height == SizeHint(processing)[2]
           enter == SizeMove(state, surface.resizing).enter
           exit == SizeMove(state, surface.resizing).exit
           resizing == IF enter THEN TRUE ELSE IF exit THEN FALSE ELSE surface.resizing
           changedbits == ((state \ surface.current.state) \cup (surface.current.state \ state))
                          \cap {MAXIMIZED, FULLSCREEN}
           flags == (IF changedbits # {} THEN {SWP_FRAMECHANGED} ELSE {})
                    \cup (IF KeepsFullscreenSize(surface, compatible)
                          THEN {SWP_NOSIZE} ELSE {})
       IN /\ surfaces' = [surfaces EXCEPT ![s].processing = processing,
                                          ![s].requested = ResetRequested(surface),
                                          ![s].resizing = resizing]
          /\ th' = [th EXCEPT ![t] =
                 [WithTop(th[t], [Top(t) EXCEPT
                      !.pc = "unlock", !.surface = s, !.serial = processing.serial,
                      !.state = state, !.swp = flags, !.arg = compatible,
                      !.width = wayland_surface_coords_to_window(width),
                      !.height = wayland_surface_coords_to_window(height),
                      !.needs_enter_size_move = enter, !.needs_exit_size_move = exit])
                  EXCEPT !.rv = NULL]]
    /\ UnchangedRegistry /\ UnchangedEnv
    /\ UNCHANGED window_surface_binding

\* line 718
wayland_configure_window_unlock(t) ==
    /\ At(t, "wayland_configure_window", "unlock")
    /\ LET s == Top(t).surface IN
       /\ surfaces' = SurfacesAfterUnlock(surfaces, s, t)
       /\ fault' = FaultAfterSurfaceUnlock(surfaces, s, t)
       /\ th' = [th EXCEPT ![t] =
              WithReleased(WithTop(th[t], [Top(t) EXCEPT !.pc = "notify", !.surface = NULL]), s)]
    /\ UnchangedRegistry
    /\ UNCHANGED <<window_surface_binding, style, budget, next_serial, superseded>>

\* faulty variant: the geometry call never tells the window system not to
\* send WM_WINDOWPOSCHANGING
configure_window_notify_changing(t) ==
    /\ At(t, "wayland_configure_window", "notify")
    /\ LET f == Top(t)
           hwnd == f.hwnd
           flags == f.swp \cup {SWP_NOACTIVATE, SWP_NOZORDER, SWP_NOOWNERZORDER, SWP_NOMOVE}
                    \cup (IF f.width = 0 \/ f.height = 0 THEN {SWP_NOSIZE} ELSE {})
           toggle == (MAXIMIZED \in f.state) # style[hwnd]
           r1 == IF f.needs_enter_size_move
                 THEN WithLog(th[t], Event("WM_ENTERSIZEMOVE", hwnd)) ELSE th[t]
           r2 == IF f.needs_exit_size_move
                 THEN WithLog(r1, Event("WM_EXITSIZEMOVE", hwnd)) ELSE r1
           r3 == IF toggle THEN WithLog(r2, Event("NtUserSetWindowLong", hwnd)) ELSE r2
           r4 == WithLog(r3, [Event("set_window_pos", hwnd) EXCEPT
                                 !.width = f.width, !.height = f.height, !.flags = flags])
       IN /\ style' = [style EXCEPT ![hwnd] = IF toggle THEN ~@ ELSE @]
          /\ th' = [th EXCEPT ![t] = WithDone(r4, NULL)]
    /\ UnchangedRegistry
    /\ UNCHANGED <<surfaces, window_surface_binding, budget, fault, next_serial, superseded>>

\* line 722-743: the size-move messages, the maximize style bit, the geometry call
wayland_configure_window_notify(t) ==
    /\ At(t, "wayland_configure_window", "notify")
    /\ LET f == Top(t)
           hwnd == f.hwnd
           flags == f.swp \cup {SWP_NOACTIVATE, SWP_NOZORDER, SWP_NOOWNERZORDER, SWP_NOMOVE}
                    \cup (IF f.width = 0 \/ f.height = 0 THEN {SWP_NOSIZE} ELSE {})
                    \cup (IF f.state \cap {MAXIMIZED, FULLSCREEN, TILED} # {}
                          THEN {SWP_NOSENDCHANGING} ELSE {})
           toggle == (MAXIMIZED \in f.state) # style[hwnd]
           r1 == IF f.needs_enter_size_move
                 THEN WithLog(th[t], Event("WM_ENTERSIZEMOVE", hwnd)) ELSE th[t]
           r2 == IF f.needs_exit_size_move
                 THEN WithLog(r1, Event("WM_EXITSIZEMOVE", hwnd)) ELSE r1
           r3 == IF toggle THEN WithLog(r2, Event("NtUserSetWindowLong", hwnd)) ELSE r2
           r4 == WithLog(r3, [Event("set_window_pos", hwnd) EXCEPT
                                 !.width = f.width, !.height = f.height, !.flags = flags])
       IN /\ style' = [style EXCEPT ![hwnd] = IF toggle THEN ~@ ELSE @]
          /\ th' = [th EXCEPT ![t] = WithDone(r4, NULL)]
    /\ UnchangedRegistry
    /\ UNCHANGED <<surfaces, window_surface_binding, budget, fault, next_serial, superseded>>

(* ----------------- the compositor and the presentation side ------------ *)
\* the records a lookup finds and whose surface is s
SurfaceOf(h) == IF rb_get(h) = NULL THEN NULL ELSE win_data[rb_get(h)].wayland_surface

\* a configure event for a toplevel surface: the new snapshot overwrites
\* requested (through wayland_surface_lock_hwnd)
handle_configure ==
    /\ Running
    /\ next_serial <= MaxSerial
    /\ win_data_mutex = NoThread
    /\ \E h \in HWNDS, c \in Configs :
       LET s == SurfaceOf(h) IN
       /\ s # NULL
       /\ surfaces[s].alive
       /\ surfaces[s].mutex = NoThread
       /\ surfaces[s].xdg_toplevel
       /\ surfaces' = [surfaces EXCEPT ![s].requested =
              [serial |-> next_serial, processed |-> FALSE,
               width |-> c.width, height |-> c.height, state |-> c.state]]
       /\ superseded' = IF surfaces[s].requested.serial # 0
                        THEN superseded \cup {<<s, surfaces[s].requested.serial>>}
                        ELSE superseded
    /\ next_serial' = next_serial + 1
    /\ UnchangedRegistry
    /\ UNCHANGED <<window_surface_binding, style, th, budget, fault>>

\* the presentation side applies a processed snapshot: it becomes current
wayland_surface_reconfigure ==
    /\ Running
    /\ win_data_mutex = NoThread
    /\ \E h \in HWNDS :
       LET s == SurfaceOf(h) IN
       /\ s # NULL
       /\ surfaces[s].alive
       /\ surfaces[s].mutex = NoThread
       /\ surfaces[s].processing.serial # 0
       /\ surfaces[s].processing.processed
       /\ surfaces' = [surfaces EXCEPT ![s].current = surfaces[s].processing,
                                       ![s].processing = NoConfig]
    /\ UnchangedRegistry /\ UnchangedEnv
    /\ UNCHANGED <<window_surface_binding, th>>

(* ---------------------- wayland_win_data_get_config -------------------- *)
\* faulty variant: the maximize bit alone makes the window maximized, with
\* or without a full caption
get_config_maximize_first(fullscreen_rect, ws_maximize, ws_caption, ws_minimize) ==
    IF ws_maximize THEN {MAXIMIZED}
    ELSE IF fullscreen_rect /\ ~ws_minimize THEN {FULLSCREEN}
    ELSE {}

\* line 194-207: the window state implied by the window rectangle and style
wayland_win_data_get_config(fullscreen_rect, ws_maximize, ws_caption, ws_minimize) ==
    IF fullscreen_rect
    THEN IF ws_maximize /\ ws_caption THEN {MAXIMIZED}
         ELSE IF ~ws_minimize THEN {FULLSCREEN}
         ELSE {}
    ELSE IF ws_maximize THEN {MAXIMIZED}
    ELSE {}

(* ------------------ wayland_win_data_update_wayland_state -------------- *)
StateFrame(data) ==
    [Frame("update_wayland_state", "lock", win_data[data].hwnd)
        EXCEPT !.data = data, !.surface = win_data[data].wayland_surface]

\* faulty variant: the set requests are sent before the unset requests
StateRequestsSetFirst(window_state, current_state) ==
    (IF MAXIMIZED \in window_state /\ MAXIMIZED \notin current_state
     THEN <<"xdg_toplevel_set_maximized">> ELSE <<>>)
    \o (IF FULLSCREEN \in window_state /\ FULLSCREEN \notin current_state
        THEN <<"xdg_toplevel_set_fullscreen">> ELSE <<>>)
    \o (IF MAXIMIZED \notin window_state /\ MAXIMIZED \in current_state
        THEN <<"xdg_toplevel_unset_maximized">> ELSE <<>>)
    \o (IF FULLSCREEN \notin window_state /\ FULLSCREEN \in current_state
        THEN <<"xdg_toplevel_unset_fullscreen">> ELSE <<>>)

\* line 425-445: the requests sent for a toplevel that is not processing a
\* compositor configure, in the order they are sent
StateRequests(window_state, current_state) ==
    (IF MAXIMIZED \notin window_state /\ MAXIMIZED \in current_state
     THEN <<"xdg_toplevel_unset_maximized">> ELSE <<>>)
    \o (IF FULLSCREEN \notin window_state /\ FULLSCREEN \in current_state
        THEN <<"xdg_toplevel_unset_fullscreen">> ELSE <<>>)
    \o (IF MAXIMIZED \in window_state /\ MAXIMIZED \notin current_state
        THEN <<"xdg_toplevel_set_maximized">> ELSE <<>>)
    \o (IF FULLSCREEN \in window_state /\ FULLSCREEN \notin current_state
        THEN <<"xdg_toplevel_set_fullscreen">> ELSE <<>>)

RECURSIVE WithLogs(_, _, _)
WithLogs(r, names, obj) ==
    IF names = <<>> THEN r ELSE WithLogs(WithLog(r, Event(Head(names), obj)), Tail(names), obj)

\* line 397
update_wayland_state_lock(t) ==
    /\ At(t, "update_wayland_state", "lock")
    /\ AcquireSurface(t, Top(t).surface, "locked")

\* faulty variant: a configure event being processed is not noticed
ProcessingNothing(surface) == FALSE

\* line 411-412: a compositor requested config is being processed
ProcessingConfig(surface) ==
    surface.processing.serial # 0 /\ ~surface.processing.processed

\* faulty variant: the connection is flushed before the surface is unlocked
update_wayland_state_flush_locked(t) ==
    /\ At(t, "update_wayland_state", "locked")
    /\ LET s == Top(t).surface
           surface == surfaces[s]
           processing_config == ProcessingConfig(surface)
           S1 == IF surface.wl_subsurface
                 THEN [surfaces EXCEPT ![s].processing.serial = 1,
                                       ![s].processing.processed = TRUE]
                 ELSE IF surface.xdg_toplevel /\ processing_config
                 THEN [surfaces EXCEPT ![s].processing.processed = TRUE]
                 ELSE surfaces
           requests == IF ~surface.wl_subsurface /\ surface.xdg_toplevel /\ ~processing_config
                       THEN StateRequests(surface.window.state, surface.current.state)
                       ELSE <<>>
           r1 == WithLogs(th[t], requests, s)
           r2 == WithReleased(WithLog(r1, FlushEvent(r1)), s)
       IN /\ surfaces' = SurfacesAfterUnlock(S1, s, t)
          /\ fault' = FaultAfterSurfaceUnlock(S1, s, t)
          /\ th' = [th EXCEPT ![t] = WithReturn(r2, NULL)]
    /\ UnchangedRegistry
    /\ UNCHANGED <<window_surface_binding, style, budget, next_serial, superseded>>

\* line 399-454
update_wayland_state_locked(t) ==
    /\ At(t, "update_wayland_state", "locked")
    /\ LET s == Top(t).surface
           surface == surfaces[s]
           processing_config == ProcessingConfig(surface)
           S1 == IF surface.wl_subsurface
                 THEN [surfaces EXCEPT ![s].processing.serial = 1,
                                       ![s].processing.processed = TRUE]
                 ELSE IF surface.xdg_toplevel /\ processing_config
                 THEN [surfaces EXCEPT ![s].processing.processed = TRUE]
                 ELSE surfaces
           requests == IF ~surface.wl_subsurface /\ surface.xdg_toplevel /\ ~processing_config
                       THEN StateRequests(surface.window.state, surface.current.state)
                       ELSE <<>>
           r1 == WithLogs(th[t], requests, s)
           r2 == WithReleased(r1, s)
       IN /\ surfaces' = SurfacesAfterUnlock(S1, s, t)
          /\ fault' = FaultAfterSurfaceUnlock(S1, s, t)
          /\ th' = [th EXCEPT ![t] = WithReturn(WithLog(r2, FlushEvent(r2)), NULL)]
    /\ UnchangedRegistry
    /\ UNCHANGED <<window_surface_binding, style, budget, next_serial, superseded>>

(* ----------------- wayland_win_data_update_wayland_surface ------------- *)
\* the frames of a call: line 268 and 278 initialise the locals, line 281
\* calls needs_wayland_surface
UwsFrames(data, flags) ==
    LET parent_data == wayland_win_data_get_top_parent(data) IN
    <<NeedsFrame(data, parent_data),
      [Frame("update_wayland_surface", "needs_ret", win_data[data].hwnd) EXCEPT
          !.data = data, !.flags = flags, !.pdata = parent_data,
          !.surface = win_data[data].wayland_surface]>>

WithCalls(r, cont, frames) ==
    [r EXCEPT !.stack = frames \o <<[Head(@) EXCEPT !.pc = cont]>> \o Tail(@), !.rv = NULL]

\* RB_FOR_EACH_ENTRY: the linked records in key order
RECURSIVE InKeyOrder(_)
InKeyOrder(R) ==
    IF R = {} THEN <<>>
    ELSE LET m == CHOOSE r \in R : \A q \in R :
                      \/ win_data[r].hwnd < win_data[q].hwnd
                      \/ win_data[r].hwnd = win_data[q].hwnd /\ r <= q
         IN <<m>> \o InKeyOrder(R \ {m})

\* line 374-381: the records the loop is still to look at
LoopTodo(flags) == IF UWS_NO_UPDATE_CHILDREN \in flags THEN <<>> ELSE InKeyOrder(win_data_rb)

\* faulty variant: every entry that has a surface is taken, whether its
\* window is a descendant or not
RECURSIVE SkipToSurface(_, _)
SkipToSurface(todo, hwnd) ==
    IF todo = <<>> THEN <<>>
    ELSE IF win_data[Head(todo)].wayland_surface # NULL
         THEN todo
         ELSE SkipToSurface(Tail(todo), hwnd)

\* line 383: skip the entries that have no surface or are no descendant
RECURSIVE SkipTo(_, _)
SkipTo(todo, hwnd) ==
    IF todo = <<>> THEN <<>>
    ELSE IF win_data[Head(todo)].wayland_surface # NULL
            /\ IsChild(hwnd, win_data[Head(todo)].hwnd)
         THEN todo
         ELSE SkipTo(Tail(todo), hwnd)

\* faulty variant: the window surface is left pointing at the surface that
\* is about to be destroyed
BindingKept(data) == window_surface_binding

\* line 287, 310: wayland_window_surface_update_wayland_surface(ws, NULL, NULL)
Unbound(data) ==
    IF win_data[data].window_surface
    THEN [window_surface_binding EXCEPT ![win_data[data].hwnd] = NULL]
    ELSE window_surface_binding
WithUnbindLog(r, data) ==
    IF win_data[data].window_surface
    THEN WithLog(r, Event("window_surface_unbind", win_data[data].hwnd)) ELSE r

\* line 281-293: the child does not need its surface
update_wayland_surface_unneeded(t) ==
    /\ At(t, "update_wayland_surface", "needs_ret")
    /\ th[t].rv = FALSE_
    /\ UWS_FORCE_CREATE \notin Top(t).flags
    /\ LET f == Top(t) IN
       IF f.surface # NULL
       THEN /\ window_surface_binding' = Unbound(f.data)
            /\ th' = [th EXCEPT ![t] =
                   WithUnbindLog(WithTop(th[t], [f EXCEPT !.pc = "destroy_unneeded"]), f.data)]
       ELSE /\ UNCHANGED window_surface_binding
            /\ th' = [th EXCEPT ![t] =
                   WithTop(th[t], [f EXCEPT !.pc = "loop", !.todo = LoopTodo(f.flags)])]
    /\ UnchangedRegistry /\ UnchangedEnv
    /\ UNCHANGED surfaces

\* line 288-292, 371
update_wayland_surface_destroy_unneeded(t) ==
    /\ At(t, "update_wayland_surface", "destroy_unneeded")
    /\ LET f == Top(t)
           s == f.surface
       IN /\ CanDestroySurface(s)
          /\ surfaces' = wayland_surface_destroy(surfaces, s)
          /\ fault' = FaultAfterDestroy(s)
          /\ superseded' = {p \in superseded : p[1] # s}
          /\ win_data' = [win_data EXCEPT ![f.data].wayland_surface = NULL]
          /\ th' = [th EXCEPT ![t] =
                 WithLog(WithTop(th[t], [f EXCEPT !.pc = "loop", !.surface = NULL,
                                                  !.changed = TRUE,
                                                  !.todo = LoopTodo(f.flags)]),
                         Event("wayland_surface_destroy", s))]
    /\ UNCHANGED <<win_data_mutex, win_data_rb, window_surface_binding,
                   style, budget, next_serial>>

\* faulty variant: a visible window is anchored without asking whether the
\* lookup of the anchor found a record with a surface
DesiredRoleAnchored(visible, parent_data) ==
    IF visible THEN "SUBSURFACE" ELSE "NONE"

\* line 295-303: the role the window should have
DesiredRole(visible, parent_data) ==
    IF visible
    THEN IF parent_data # NULL /\ win_data[parent_data].wayland_surface # NULL
         THEN "SUBSURFACE" ELSE "TOPLEVEL"
    ELSE "NONE"

\* faulty variant: a surface with another role is reused as it is
RoleConflictIgnored(surface, role) == FALSE

\* line 307: the surface has another role than the one wanted
RoleConflict(surface, role) ==
    /\ surface # NULL
    /\ role # "NONE"
    /\ surfaces[surface].role # "NONE"
    /\ role # surfaces[surface].role

\* line 295-310, 319: work out the role; detach the window surface when the
\* surface is to be replaced; arg keeps what NtUserIsWindowVisible returned
update_wayland_surface_role(t) ==
    /\ At(t, "update_wayland_surface", "needs_ret")
    /\ th[t].rv = TRUE_ \/ UWS_FORCE_CREATE \in Top(t).flags
    /\ \E visible \in BOOLEAN :
       LET f == Top(t)
           role == DesiredRole(visible, f.pdata)
       IN IF RoleConflict(f.surface, role)
          THEN /\ window_surface_binding' = Unbound(f.data)
               /\ th' = [th EXCEPT ![t] =
                      WithUnbindLog(WithTop(th[t], [f EXCEPT !.pc = "conflict_lock",
                                                             !.role = role,
                                                             !.arg = visible]), f.data)]
          ELSE /\ UNCHANGED window_surface_binding
               /\ th' = [th EXCEPT ![t] =
                      WithTop(th[t], [f EXCEPT !.role = role, !.arg = visible,
                                         !.pc = IF f.surface = NULL THEN "create" ELSE "lock"])]
    /\ UnchangedRegistry /\ UnchangedEnv
    /\ UNCHANGED surfaces

\* line 311
update_wayland_surface_conflict_lock(t) ==
    /\ At(t, "update_wayland_surface", "conflict_lock")
    /\ AcquireSurface(t, Top(t).surface, "conflict_locked")

\* line 312-313: keep the client of the surface that is about to go
update_wayland_surface_conflict_locked(t) ==
    /\ At(t, "update_wayland_surface", "conflict_locked")
    /\ LET f == Top(t)
           s == f.surface
           has_client == surfaces[s].client
           r == WithReleased(WithTop(th[t], [f EXCEPT !.pc = "conflict_destroy",
                                                      !.client = has_client]), s)
       IN /\ surfaces' = SurfacesAfterUnlock(surfaces, s, t)
          /\ fault' = FaultAfterSurfaceUnlock(surfaces, s, t)
          /\ th' = [th EXCEPT ![t] =
                 IF has_client THEN WithLog(r, Event("wayland_surface_get_client", s)) ELSE r]
    /\ UnchangedRegistry
    /\ UNCHANGED <<window_surface_binding, style, budget, next_serial, superseded>>

\* line 314-315
update_wayland_surface_conflict_destroy(t) ==
    /\ At(t, "update_wayland_surface", "conflict_destroy")
    /\ LET f == Top(t)
           s == f.surface
       IN /\ CanDestroySurface(s)
          /\ surfaces' = wayland_surface_destroy(surfaces, s)
          /\ fault' = FaultAfterDestroy(s)
          /\ superseded' = {p \in superseded : p[1] # s}
          /\ th' = [th EXCEPT ![t] =
                 WithLog(WithTop(th[t], [f EXCEPT !.pc = "create", !.surface = NULL]),
                         Event("wayland_surface_destroy", s))]
    /\ UnchangedRegistry
    /\ UNCHANGED <<window_surface_binding, style, budget, next_serial>>

\* faulty variant: the role manager returns from the failed creation without
\* passing line 369-372
create_failed_return(t) ==
    /\ At(t, "update_wayland_surface", "create")
    /\ LET f == Top(t) IN
       th' = [th EXCEPT ![t] =
                 WithTop(th[t], [f EXCEPT !.pc = "loop", !.todo = LoopTodo(f.flags)])]
    /\ UnchangedRegistry /\ UnchangedEnv
    /\ UNCHANGED <<surfaces, window_surface_binding>>

\* line 321-323, 369-372: wayland_surface_create fails
update_wayland_surface_create_failed(t) ==
    /\ At(t, "update_wayland_surface", "create")
    /\ LET f == Top(t)
           r == WithTop(th[t], [f EXCEPT !.pc = "loop", !.todo = LoopTodo(f.flags),
                                         !.changed = win_data[f.data].wayland_surface # NULL])
       IN /\ win_data' = [win_data EXCEPT ![f.data].wayland_surface = NULL]
          /\ th' = [th EXCEPT ![t] =
                 IF f.client THEN WithLog(r, Event("wayland_client_surface_release", NULL))
                 ELSE r]
    /\ UNCHANGED <<win_data_mutex, win_data_rb, surfaces, window_surface_binding>>
    /\ UnchangedEnv

\* line 321-322: a new surface
update_wayland_surface_create(t) ==
    /\ At(t, "update_wayland_surface", "create")
    /\ FreeSurfs(Top(t).hwnd) # {}
    /\ LET f == Top(t)
           s == Min(FreeSurfs(f.hwnd))
       IN /\ surfaces' = wayland_surface_create(surfaces, s, f.hwnd)
          /\ th' = [th EXCEPT ![t] =
                 WithLog(WithTop(th[t], [f EXCEPT !.pc = "lock", !.surface = s,
                                                  !.changed = TRUE]),
                         Event("wayland_surface_create", s))]
    /\ UnchangedRegistry /\ UnchangedEnv
    /\ UNCHANGED window_surface_binding

\* line 326
update_wayland_surface_lock(t) ==
    /\ At(t, "update_wayland_surface", "lock")
    /\ AcquireSurface(t, Top(t).surface, "locked")

\* faulty variant: the role objects are made again only when the caller
\* forces it
NeedsRoleUpdateForced(f) == UWS_FORCE_ROLE_UPDATE \in f.flags

\* faulty variant: the anchor named by the parent reference is not compared
\* with the anchor the lookup found
NeedsRoleUpdateSameAnchor(f) ==
    LET surface == surfaces[f.surface] IN
    \/ (f.role = "TOPLEVEL") # surface.xdg_toplevel
    \/ (f.role = "SUBSURFACE") # surface.wl_subsurface
    \/ UWS_FORCE_ROLE_UPDATE \in f.flags

\* line 328-332: must the role objects be made again
NeedsRoleUpdate(f) ==
    LET surface == surfaces[f.surface] IN
    \/ (f.role = "TOPLEVEL") # surface.xdg_toplevel
    \/ (f.role = "SUBSURFACE") # surface.wl_subsurface
    \/ /\ f.role = "SUBSURFACE"
       /\ surface.parent_weak_ref # NULL
       /\ surface.parent_weak_ref # win_data[f.pdata].hwnd
    \/ UWS_FORCE_ROLE_UPDATE \in f.flags

\* line 335: a pre-existing surface loses its role before it gets one
ClearsRole(f) == win_data[f.data].wayland_surface # NULL

\* line 356-372: record the window configuration, hand the client over,
\* unlock, point the window surface at the surface, store the surface
UwsFinish(t, S, r) ==
    \E fullscreen_rect \in BOOLEAN, ws_caption \in BOOLEAN, ws_minimize \in BOOLEAN :
    LET f == Head(r.stack)
        s == f.surface
        data == f.data
        hwnd == win_data[data].hwnd
        conf == wayland_win_data_get_config(fullscreen_rect, style[hwnd],
                                            ws_caption, ws_minimize)
        S1 == [S EXCEPT ![s].window = [state |-> conf],
                        ![s].client = IF f.client THEN TRUE ELSE @]
        r1 == IF f.client THEN WithLog(r, Event("wayland_surface_attach_client", s)) ELSE r
        r2 == WithReleased(r1, s)
        r3 == IF win_data[data].window_surface
              THEN WithLog(r2, Event("window_surface_bind", s)) ELSE r2
        r4 == IF f.client THEN WithLog(r3, Event("wayland_client_surface_release", s)) ELSE r3
    IN /\ surfaces' = SurfacesAfterUnlock(S1, s, t)
       /\ fault' = FaultAfterSurfaceUnlock(S1, s, t)
       /\ window_surface_binding' =
              IF win_data[data].window_surface
              THEN [window_surface_binding EXCEPT ![hwnd] = s]
              ELSE window_surface_binding
       /\ win_data' = [win_data EXCEPT ![data].wayland_surface = s]
       /\ th' = [th EXCEPT ![t] =
              WithTop(r4, [f EXCEPT !.pc = "loop", !.todo = LoopTodo(f.flags)])]

\* line 328-335 when no role is to be made: the role is kept as it is, or
\* cleared for a window that is not visible
update_wayland_surface_locked_keep(t) ==
    /\ At(t, "update_wayland_surface", "locked")
    /\ ~NeedsRoleUpdate(Top(t)) \/ Top(t).role = "NONE"
    /\ LET f == Top(t)
           clear == NeedsRoleUpdate(f) /\ ClearsRole(f)
       IN UwsFinish(t,
              IF clear THEN wayland_surface_clear_role(surfaces, f.surface) ELSE surfaces,
              IF clear THEN WithLog(th[t], Event("wayland_surface_clear_role", f.surface))
              ELSE th[t])
    /\ UNCHANGED <<win_data_mutex, win_data_rb, style, budget, next_serial, superseded>>

\* line 328-335 when a role is to be made: clear the role first
update_wayland_surface_locked_clear(t) ==
    /\ At(t, "update_wayland_surface", "locked")
    /\ NeedsRoleUpdate(Top(t))
    /\ Top(t).role # "NONE"
    /\ LET f == Top(t)
           r == WithTop(th[t], [f EXCEPT !.pc = "make"])
       IN IF ClearsRole(f)
          THEN /\ surfaces' = wayland_surface_clear_role(surfaces, f.surface)
               /\ th' = [th EXCEPT ![t] =
                      WithLog(r, Event("wayland_surface_clear_role", f.surface))]
          ELSE /\ UNCHANGED surfaces
               /\ th' = [th EXCEPT ![t] = r]
    /\ UnchangedRegistry /\ UnchangedEnv
    /\ UNCHANGED window_surface_binding

\* line 338-347
update_wayland_surface_make_toplevel(t) ==
    /\ At(t, "update_wayland_surface", "make")
    /\ Top(t).role = "TOPLEVEL"
    /\ LET s == Top(t).surface IN
       UwsFinish(t, wayland_surface_make_toplevel(surfaces, s),
                 WithLog(WithLog(th[t], Event("wayland_surface_make_toplevel", s)),
                         Event("wayland_surface_set_title", s)))
    /\ UNCHANGED <<win_data_mutex, win_data_rb, style, budget, next_serial, superseded>>

\* line 350: lock the anchor's surface while the own surface is locked
update_wayland_surface_lock_parent(t) ==
    /\ At(t, "update_wayland_surface", "make")
    /\ Top(t).role = "SUBSURFACE"
    /\ AcquireSurface(t, win_data[Top(t).pdata].wayland_surface, "parent_locked")

\* line 351-352
update_wayland_surface_make_subsurface(t) ==
    /\ At(t, "update_wayland_surface", "parent_locked")
    /\ LET s == Top(t).surface
           parent == win_data[Top(t).pdata].wayland_surface
           S1 == wayland_surface_make_subsurface(surfaces, s, parent)
       IN /\ S1[parent].alive /\ S1[parent].mutex = t
          /\ UwsFinish(t, [S1 EXCEPT ![parent].mutex = NoThread],
                       WithLog(WithReleased(th[t], parent),
                               Event("wayland_surface_make_subsurface", s)))
    /\ UNCHANGED <<win_data_mutex, win_data_rb, style, budget, next_serial, superseded>>

\* line 374-389: no (further) descendant with a surface: return
update_wayland_surface_return(t) ==
    /\ At(t, "update_wayland_surface", "loop")
    /\ SkipTo(Top(t).todo, Top(t).hwnd) = <<>>
    /\ th' = [th EXCEPT ![t] = WithReturn(th[t], NULL)]
    /\ UnchangedRegistry /\ UnchangedEnv
    /\ UNCHANGED <<surfaces, window_surface_binding>>

\* faulty variant: the nested calls may update descendants themselves
wwd_flags_recursing(f) ==
    IF f.changed THEN {UWS_FORCE_ROLE_UPDATE} ELSE {}

\* line 380: the flags of the nested calls
wwd_flags(f) ==
    {UWS_NO_UPDATE_CHILDREN} \cup (IF f.changed THEN {UWS_FORCE_ROLE_UPDATE} ELSE {})

\* line 383-385: update the next descendant that has a surface
update_wayland_surface_child(t) ==
    /\ At(t, "update_wayland_surface", "loop")
    /\ SkipTo(Top(t).todo, Top(t).hwnd) # <<>>
    /\ LET f == Top(t)
           todo == SkipTo(f.todo, f.hwnd)
       IN th' = [th EXCEPT ![t] =
              WithCalls(WithTop(th[t], [f EXCEPT !.todo = todo]), "visited",
                        UwsFrames(Head(todo), wwd_flags(f)))]
    /\ UnchangedRegistry /\ UnchangedEnv
    /\ UNCHANGED <<surfaces, window_surface_binding>>

\* line 386
update_wayland_surface_child_state(t) ==
    /\ At(t, "update_wayland_surface", "visited")
    /\ LET f == Top(t)
           wwd == Head(f.todo)
           g == [f EXCEPT !.todo = Tail(f.todo), !.pc = "loop"]
       IN th' = [th EXCEPT ![t] =
              IF win_data[wwd].wayland_surface # NULL
              THEN WithCalls(WithTop(th[t], g), "loop", <<StateFrame(wwd)>>)
              ELSE WithTop(th[t], g)]
    /\ UnchangedRegistry /\ UnchangedEnv
    /\ UNCHANGED <<surfaces, window_surface_binding>>

(* ------------------------ WAYLAND_WindowPosChanged --------------------- *)
\* the window_surface argument: none, the one the record already has, or
\* another one
WindowSurfaceArgs == {"none", "same", "new"}

\* the window system calls the driver after it has moved the window
WAYLAND_WindowPosChanged(t) ==
    /\ \E h \in HWNDS : Enter(t, <<Frame("WAYLAND_WindowPosChanged", "managed", h)>>)
    /\ UnchangedRegistry
    /\ UNCHANGED <<surfaces, window_surface_binding, style, fault, next_serial, superseded>>

\* line 614: is_window_managed runs with the registry unlocked and decides
\* from the window's styles
WindowPosChanged_managed(t) ==
    /\ At(t, "WAYLAND_WindowPosChanged", "managed")
    /\ th' = [th EXCEPT ![t] = WithCall(th[t], "got", GetFrame(Top(t).hwnd))]
    /\ UnchangedRegistry /\ UnchangedEnv
    /\ UNCHANGED <<surfaces, window_surface_binding>>

\* line 457-463 from line 614: is_managed looks at another window's record
\* and lets the registry go again
is_managed(t) ==
    /\ At(t, "WAYLAND_WindowPosChanged", "managed")
    /\ win_data_mutex = NoThread
    /\ th' = [th EXCEPT ![t] = WithCall(th[t], "got", GetFrame(Top(t).hwnd))]
    /\ UnchangedRegistry /\ UnchangedEnv
    /\ UNCHANGED <<surfaces, window_surface_binding>>

\* line 616: no record
WindowPosChanged_no_data(t) ==
    /\ At(t, "WAYLAND_WindowPosChanged", "got")
    /\ th[t].rv = NULL
    /\ th' = [th EXCEPT ![t] = WithDone(th[t], NULL)]
    /\ UnchangedRegistry /\ UnchangedEnv
    /\ UNCHANGED <<surfaces, window_surface_binding>>

\* line 618-627: store the rectangles and the window surface, then update
\* the wayland surface; the arguments are the new rectangle and the window
\* surface, and the application may have changed the maximize style by now
WindowPosChanged_update(t) ==
    /\ At(t, "WAYLAND_WindowPosChanged", "got")
    /\ th[t].rv # NULL
    /\ \E surface \in WindowSurfaceArgs, ws_maximize \in BOOLEAN :
       LET f == Top(t)
           data == th[t].rv
           had == win_data[data].window_surface
           arg == IF surface = "same" /\ ~had THEN "new" ELSE surface
           r1 == IF arg # "none"
                 THEN WithLog(th[t], Event("window_surface_add_ref", f.hwnd)) ELSE th[t]
           r2 == IF had THEN WithLog(r1, Event("window_surface_release", f.hwnd)) ELSE r1
           D1 == [win_data EXCEPT ![data].window_surface = arg # "none"]
       IN /\ win_data' = D1
          /\ style' = [style EXCEPT ![f.hwnd] = ws_maximize]
          /\ window_surface_binding' =
                 IF arg = "same" THEN window_surface_binding
                 ELSE [window_surface_binding EXCEPT ![f.hwnd] = NULL]
          /\ th' = [th EXCEPT ![t] =
                 WithCalls(WithTop(r2, [f EXCEPT !.data = data]), "uws_ret",
                           UwsFrames(data, {}))]
    /\ UNCHANGED <<win_data_mutex, win_data_rb, surfaces, budget, fault, next_serial,
                   superseded>>

\* line 628
WindowPosChanged_state(t) ==
    /\ At(t, "WAYLAND_WindowPosChanged", "uws_ret")
    /\ LET f == Top(t) IN
       th' = [th EXCEPT ![t] =
           IF win_data[f.data].wayland_surface # NULL
           THEN WithCalls(th[t], "release", <<StateFrame(f.data)>>)
           ELSE WithTop(th[t], [f EXCEPT !.pc = "release"])]
    /\ UnchangedRegistry /\ UnchangedEnv
    /\ UNCHANGED <<surfaces, window_surface_binding>>

\* line 630
WindowPosChanged_release(t) ==
    /\ At(t, "WAYLAND_WindowPosChanged", "release")
    /\ th' = [th EXCEPT ![t] = WithReleased(WithDone(th[t], NULL), Registry)]
    /\ win_data_mutex' = RegistryAfterUnlock(t)
    /\ fault' = FaultAfterRegistryUnlock(t)
    /\ UNCHANGED <<win_data_rb, win_data, surfaces, window_surface_binding,
                   style, budget, next_serial, superseded>>

(* -------------------- wayland_surface_lock_accel_hwnd ------------------ *)
wayland_surface_lock_accel_hwnd(t) ==
    /\ \E h \in HWNDS :
         EnterGet(t, h, <<Frame("wayland_surface_lock_accel_hwnd", "got", h)>>)
    /\ UNCHANGED <<surfaces, window_surface_binding, style, fault, next_serial, superseded>>

\* line 904
lock_accel_hwnd_no_data(t) ==
    /\ At(t, "wayland_surface_lock_accel_hwnd", "got")
    /\ th[t].rv = NULL
    /\ th' = [th EXCEPT ![t] = WithDone(th[t], NULL)]
    /\ UnchangedRegistry /\ UnchangedEnv
    /\ UNCHANGED <<surfaces, window_surface_binding>>

\* line 909: a child without a surface whose anchor has a record
AccelCreates(data) ==
    /\ win_data[data].wayland_surface = NULL
    /\ wayland_win_data_get_top_parent(data) # NULL

\* line 909-911: create the surface on demand
lock_accel_hwnd_create(t) ==
    /\ At(t, "wayland_surface_lock_accel_hwnd", "got")
    /\ th[t].rv # NULL
    /\ AccelCreates(th[t].rv)
    /\ LET data == th[t].rv IN
       th' = [th EXCEPT ![t] =
           WithCalls(WithTop(th[t], [Top(t) EXCEPT !.data = data]), "uws_ret",
                     UwsFrames(data, {UWS_FORCE_CREATE}))]
    /\ UnchangedRegistry /\ UnchangedEnv
    /\ UNCHANGED <<surfaces, window_surface_binding>>

\* line 912
lock_accel_hwnd_state(t) ==
    /\ At(t, "wayland_surface_lock_accel_hwnd", "uws_ret")
    /\ LET f == Top(t) IN
       th' = [th EXCEPT ![t] =
           IF win_data[f.data].wayland_surface # NULL
           THEN WithCalls(th[t], "lock", <<StateFrame(f.data)>>)
           ELSE WithTop(th[t], [f EXCEPT !.pc = "lock"])]
    /\ UnchangedRegistry /\ UnchangedEnv
    /\ UNCHANGED <<surfaces, window_surface_binding>>

\* line 915: lock the surface, if there is one, while the registry is held
lock_accel_hwnd_lock(t) ==
    /\ \/ At(t, "wayland_surface_lock_accel_hwnd", "lock")
       \/ /\ At(t, "wayland_surface_lock_accel_hwnd", "got")
          /\ th[t].rv # NULL
          /\ ~AccelCreates(th[t].rv)
    /\ LET f == Top(t)
           data == IF f.pc = "got" THEN th[t].rv ELSE f.data
           s == win_data[data].wayland_surface
           r == [th[t] EXCEPT !.rv = NULL]
       IN IF s = NULL
          THEN /\ th' = [th EXCEPT ![t] =
                      WithTop(r, [f EXCEPT !.pc = "release", !.data = data])]
               /\ UNCHANGED <<surfaces, fault>>
          ELSE IF ~surfaces[s].alive
          THEN /\ fault' = "use_after_free"
               /\ UNCHANGED <<surfaces, th>>
          ELSE /\ surfaces[s].mutex = NoThread
               /\ surfaces' = [surfaces EXCEPT ![s].mutex = t]
               /\ th' = [th EXCEPT ![t] =
                      WithHeld(WithTop(r, [f EXCEPT !.pc = "release", !.data = data,
                                                    !.surface = s]), s)]
               /\ UNCHANGED fault
    /\ UnchangedRegistry
    /\ UNCHANGED <<window_surface_binding, style, budget, next_serial, superseded>>

\* line 917-919: the caller gets the locked surface, or NULL
lock_accel_hwnd_release(t) ==
    /\ At(t, "wayland_surface_lock_accel_hwnd", "release")
    /\ th' = [th EXCEPT ![t] =
           WithReleased(IF Top(t).surface = NULL THEN WithDone(th[t], NULL)
                        ELSE [WithTop(th[t], [Top(t) EXCEPT !.pc = "caller"])
                                 EXCEPT !.rv = Top(t).surface],
                        Registry)]
    /\ win_data_mutex' = RegistryAfterUnlock(t)
    /\ fault' = FaultAfterRegistryUnlock(t)
    /\ UNCHANGED <<win_data_rb, win_data, surfaces, window_surface_binding,
                   style, budget, next_serial, superseded>>

\* the caller of wayland_surface_lock_accel_hwnd got a locked surface: it
\* may give the surface a client for accelerated content, and unlocks it
accel_caller_unlock(t) ==
    /\ At(t, "wayland_surface_lock_accel_hwnd", "caller")
    /\ \E attach \in BOOLEAN :
       LET s == th[t].rv
           S1 == [surfaces EXCEPT ![s].client = @ \/ attach]
       IN /\ surfaces' = SurfacesAfterUnlock(S1, s, t)
          /\ fault' = FaultAfterSurfaceUnlock(S1, s, t)
          /\ th' = [th EXCEPT ![t] = WithReleased(WithDone(th[t], s), s)]
    /\ UnchangedRegistry
    /\ UNCHANGED <<window_surface_binding, style, budget, next_serial, superseded>>

(* -------------------------------- Next --------------------------------- *)
\* a step of thread t in any operation, but for the progress of a drain that
\* found a configure event
Step(t) ==
    \/ Return(t)
    \/ WAYLAND_WindowPosChanging(t)
    \/ WAYLAND_WindowPosChanged(t)
    \/ WAYLAND_DestroyWindow(t)
    \/ WAYLAND_SetWindowText(t)
    \/ wayland_window_flush(t)
    \/ wayland_surface_lock_accel_hwnd(t)
    \/ wayland_win_data_get(t)
    \/ wayland_win_data_create_refused(t)
    \/ wayland_win_data_create_nomem(t)
    \/ wayland_win_data_create_alloc(t)
    \/ wayland_win_data_create_lock(t)
    \/ wayland_surface_lock_hwnd_none(t)
    \/ wayland_surface_lock_hwnd_lock(t)
    \/ wayland_surface_lock_hwnd_release(t)
    \/ needs_wayland_surface_toplevel(t)
    \/ needs_wayland_surface_no_own(t)
    \/ needs_wayland_surface_lock_own(t)
    \/ needs_wayland_surface_own_locked(t)
    \/ needs_wayland_surface_null_parent(t)
    \/ needs_wayland_surface_no_parent_surface(t)
    \/ needs_wayland_surface_lock_parent(t)
    \/ needs_wayland_surface_parent_locked(t)
    \/ WindowPosChanging_create(t)
    \/ WindowPosChanging_no_data(t)
    \/ WindowPosChanging_toplevel(t)
    \/ WindowPosChanging_child(t)
    \/ WindowPosChanging_needs_ret(t)
    \/ DestroyWindow_no_data(t)
    \/ wayland_win_data_destroy_remove(t)
    \/ wayland_win_data_destroy_window_surface(t)
    \/ wayland_win_data_destroy_wayland_surface(t)
    \/ wayland_window_flush_got(t)
    \/ SetWindowText_locked(t)
    \/ update_wayland_state_lock(t)
    \/ update_wayland_state_locked(t)
    \/ update_wayland_surface_unneeded(t)
    \/ update_wayland_surface_destroy_unneeded(t)
    \/ update_wayland_surface_role(t)
    \/ update_wayland_surface_conflict_lock(t)
    \/ update_wayland_surface_conflict_locked(t)
    \/ update_wayland_surface_conflict_destroy(t)
    \/ update_wayland_surface_create_failed(t)
    \/ update_wayland_surface_create(t)
    \/ update_wayland_surface_lock(t)
    \/ update_wayland_surface_locked_keep(t)
    \/ update_wayland_surface_locked_clear(t)
    \/ update_wayland_surface_make_toplevel(t)
    \/ update_wayland_surface_lock_parent(t)
    \/ update_wayland_surface_make_subsurface(t)
    \/ update_wayland_surface_return(t)
    \/ update_wayland_surface_child(t)
    \/ update_wayland_surface_child_state(t)
    \/ WindowPosChanged_managed(t)
    \/ is_managed(t)
    \/ WindowPosChanged_no_data(t)
    \/ WindowPosChanged_update(t)
    \/ WindowPosChanged_state(t)
    \/ WindowPosChanged_release(t)
    \/ lock_accel_hwnd_no_data(t)
    \/ lock_accel_hwnd_create(t)
    \/ lock_accel_hwnd_state(t)
    \/ lock_accel_hwnd_lock(t)
    \/ lock_accel_hwnd_release(t)
    \/ accel_caller_unlock(t)

\* the system command and the drain of a configure event
Drain(t) ==
    \/ WAYLAND_SysCommand(t)
    \/ SysCommand_locked(t)
    \/ wayland_configure_window(t)
    \/ wayland_configure_window_return(t)
    \/ wayland_configure_window_promote(t)
    \/ wayland_configure_window_unlock(t)
    \/ wayland_configure_window_notify(t)

\* the compositor, and the presentation side acknowledging
Compositor ==
    \/ handle_configure
    \/ wayland_surface_reconfigure

Next ==
    \/ \E t \in Threads : Step(t) \/ Drain(t)
    \/ Compositor

\* the threads alone: the compositor sends no configure event
NextThreads == \E t \in Threads : Step(t)

\* one thread runs MaxSeqOps operations, the compositor sends up to
\* MaxSerial configure events
Spec == Init /\ [][Next]_vars

\* two threads run MaxOps operations each
SpecThreads == InitThreads /\ [][NextThreads]_vars

(* ------------- a top-level window and a child with a sub-surface ------- *)
\* operations the single thread may start in SpecFamily
MaxFamilyOps == 2

\* the records of a top-level window and of a child of it, in one of two
\* states. Without surfaces: the state after WAYLAND_WindowPosChanging for
\* the top-level window and for the child. With surfaces: the state after
\* WAYLAND_WindowPosChanging and WAYLAND_WindowPosChanged for the visible
\* top-level window, and WAYLAND_WindowPosChanging (and, with a window
\* surface, WAYLAND_WindowPosChanged) and wayland_surface_lock_accel_hwnd for
\* the visible child: the top-level window has a toplevel surface, the child
\* a sub-surface under it that wayland_win_data_update_wayland_state has
\* marked, and either surface may have got a client from the caller of
\* wayland_surface_lock_accel_hwnd. anchor is the window the child's
\* sub-surface was made under: the top-level window, or the window whose
\* child it was before NtUserSetParent moved it under the top-level window;
\* ops gives the operations each thread may start
FamilyInit(anchor, ops) ==
    LET top == Min(RecCells(TopWin))
        child == Min(RecCells(ChildWin))
        ts == Min(SurfCells(TopWin))
        cs == Min(SurfCells(ChildWin))
    IN
    /\ win_data_mutex = NoThread
    /\ win_data_rb = {top, child}
    /\ \E with_surfaces \in BOOLEAN, top_client \in BOOLEAN, child_client \in BOOLEAN,
          child_ws \in BOOLEAN :
       /\ ~with_surfaces => ~top_client /\ ~child_client /\ ~child_ws
       /\ win_data = [r \in RecIds |->
              IF r = top
              THEN [FreeRec EXCEPT !.used = TRUE, !.hwnd = TopWin,
                                   !.wayland_surface = IF with_surfaces THEN ts ELSE NULL]
              ELSE IF r = child
              THEN [FreeRec EXCEPT !.used = TRUE, !.hwnd = ChildWin,
                                   !.window_surface = child_ws,
                                   !.wayland_surface = IF with_surfaces THEN cs ELSE NULL]
              ELSE FreeRec]
       /\ surfaces = [s \in SurfIds |->
              IF with_surfaces /\ s = ts
              THEN [FreeSurface EXCEPT !.alive = TRUE, !.hwnd = TopWin, !.role = "TOPLEVEL",
                                       !.xdg_toplevel = TRUE, !.client = top_client]
              ELSE IF with_surfaces /\ s = cs
              THEN [FreeSurface EXCEPT !.alive = TRUE, !.hwnd = ChildWin,
                                       !.role = "SUBSURFACE", !.wl_subsurface = TRUE,
                                       !.parent_weak_ref = anchor, !.client = child_client,
                                       !.processing = [NoConfig EXCEPT !.serial = 1,
                                                                       !.processed = TRUE]]
              ELSE FreeSurface]
       /\ window_surface_binding =
              [h \in HWNDS |-> IF h = ChildWin /\ child_ws THEN cs ELSE NULL]
    /\ style = [h \in HWNDS |-> FALSE]
    /\ th = [t \in Threads |-> IdleThread]
    /\ budget = ops
    /\ fault = "none"
    /\ next_serial = 1
    /\ superseded = {}

\* the operations of SpecFamily: t1 runs them all
FamilyOps == [t \in Threads |-> IF t = "t1" THEN MaxFamilyOps ELSE 0]

\* the child's sub-surface is anchored to the top-level window
InitFamily == FamilyInit(TopWin, FamilyOps)

\* one thread runs MaxFamilyOps operations on the two windows; the compositor
\* sends no configure event
SpecFamily == InitFamily /\ [][NextThreads]_vars

\* line 331: the child was moved under the top-level window after its
\* sub-surface was made, parent_weak_ref->hwnd is still the former anchor
InitReparent == FamilyInit(FormerWin, FamilyOps)

\* one thread runs MaxFamilyOps operations on the two windows, the child
\* having been re-parented
SpecReparent == InitReparent /\ [][NextThreads]_vars

\* the drain, the system command and WAYLAND_DestroyWindow, with the lookups
\* they make, next to the compositor and the presentation side
NextDrain ==
    \/ \E t \in Threads :
          \/ Drain(t)
          \/ Return(t)
          \/ wayland_surface_lock_hwnd_none(t)
          \/ wayland_surface_lock_hwnd_lock(t)
          \/ wayland_surface_lock_hwnd_release(t)
          \/ WAYLAND_DestroyWindow(t)
          \/ DestroyWindow_no_data(t)
          \/ wayland_win_data_destroy_remove(t)
          \/ wayland_win_data_destroy_window_surface(t)
          \/ wayland_win_data_destroy_wayland_surface(t)
    \/ Compositor

\* one thread runs MaxFamilyOps of these operations on the two windows while
\* the compositor sends up to MaxSerial configure events
SpecDrain == InitFamily /\ [][NextDrain]_vars

(* --------------------- two threads on the two windows ------------------ *)
\* operations each of the two threads may start in SpecDrains and SpecRace
MaxRaceOps == 1

\* both threads run drains, system commands and WAYLAND_DestroyWindow on the
\* two windows while the compositor sends up to MaxSerial configure events
InitDrains == FamilyInit(TopWin, [t \in Threads |-> MaxRaceOps])
SpecDrains == InitDrains /\ [][NextDrain]_vars

\* both threads run one operation of the window system each on the two
\* windows, which have no surface yet or have their surfaces: the top-level
\* one with a client area, the child with a presentation surface
InitRace ==
    /\ InitDrains
    /\ \/ SurfaceOf(TopWin) = NULL
       \/ /\ surfaces[Min(SurfCells(TopWin))].client
          /\ win_data[Min(RecCells(ChildWin))].window_surface
SpecRace == InitRace /\ [][NextThreads]_vars

(* ------------- one pass of the state update, from any state ------------ *)
\* the states the compositor can have told a toplevel to be in
CurrentStates == SUBSET {MAXIMIZED, FULLSCREEN, RESIZING, TILED}

\* line 190, 197-199: the caption and minimize bits of the window style
StyleBits(ws_caption, ws_minimize) ==
    (IF ws_caption THEN {"WS_CAPTION"} ELSE {})
    \cup (IF ws_minimize THEN {"WS_MINIMIZE"} ELSE {})

\* WAYLAND_WindowPosChanged at line 628, about to call
\* wayland_win_data_update_wayland_state for a top-level window whose surface
\* has the window state of any style and the current state of any earlier
\* configure event, with or without a configure event being processed; the
\* frame keeps what line 356 computed the window state from: arg tells
\* whether window_rect covers the monitor, flags has the style bits
InitState ==
    /\ win_data_mutex = "t1"
    /\ win_data_rb = {Min(RecCells(TopWin))}
    /\ win_data = [r \in RecIds |->
           IF r = Min(RecCells(TopWin))
           THEN [FreeRec EXCEPT !.used = TRUE, !.hwnd = TopWin,
                                !.wayland_surface = Min(SurfCells(TopWin))]
           ELSE FreeRec]
    /\ \E fullscreen_rect \in BOOLEAN, ws_maximize \in BOOLEAN, ws_caption \in BOOLEAN,
          ws_minimize \in BOOLEAN, cs \in CurrentStates, processing \in 0..2 :
       /\ style = [h \in HWNDS |-> h = TopWin /\ ws_maximize]
       /\ surfaces = [s \in SurfIds |->
              IF s = Min(SurfCells(TopWin))
              THEN [FreeSurface EXCEPT
                       !.alive = TRUE, !.hwnd = TopWin, !.role = "TOPLEVEL",
                       !.xdg_toplevel = TRUE,
                       !.window = [state |-> wayland_win_data_get_config(
                                       fullscreen_rect, ws_maximize, ws_caption, ws_minimize)],
                       !.current = [NoConfig EXCEPT !.serial = 1, !.processed = TRUE,
                                                    !.state = cs],
                       !.processing = IF processing = 0 THEN NoConfig
                                      ELSE [NoConfig EXCEPT !.serial = 2,
                                                            !.processed = processing = 2]]
              ELSE FreeSurface]
       /\ th = [t \in Threads |->
              IF t = "t1"
              THEN [IdleThread EXCEPT
                       !.stack = <<[Frame("WAYLAND_WindowPosChanged", "uws_ret", TopWin)
                                       EXCEPT !.data = Min(RecCells(TopWin)),
                                              !.arg = fullscreen_rect,
                                              !.flags = StyleBits(ws_caption, ws_minimize)]>>,
                       !.held = <<Registry>>]
              ELSE IdleThread]
    /\ window_surface_binding = [h \in HWNDS |-> NULL]
    /\ budget = [t \in Threads |-> 0]
    /\ fault = "none"
    /\ next_serial = MaxSerial + 1
    /\ superseded = {}

NextState ==
    \E t \in Threads :
       \/ WindowPosChanged_state(t)
       \/ update_wayland_state_lock(t)
       \/ update_wayland_state_locked(t)
       \/ WindowPosChanged_release(t)
       \/ Return(t)

\* one thread finishes WAYLAND_WindowPosChanged from line 628 on
SpecState == InitState /\ [][NextState]_vars

(* ------------------------------- claims -------------------------------- *)
\* the events of a log that are named ev, as indices
EventsNamed(log, ev) == {i \in 1..Len(log) : log[i].ev = ev}
\* the surface locks thread t holds
LockedSurfaces(t) == {s \in SurfIds : surfaces[s].alive /\ surfaces[s].mutex = t}
\* the records linked for a window
Linked(hwnd) == {r \in win_data_rb : win_data[r].hwnd = hwnd}

\* C1: under any interleaving of concurrent creates for one window the
\* registry links at most one record for it; wayland_win_data_create hands
\* every caller the linked record, under the registry lock; and the caller
\* that lost the race has freed the record it allocated, which is not linked.
C1_AtMostOneRecord ==
    /\ \A h \in HWNDS : Cardinality(Linked(h)) <= 1
    /\ \A t \in Threads :
          Loc(t, "WAYLAND_WindowPosChanging", "created") /\ th[t].rv # NULL =>
             /\ Linked(Top(t).hwnd) = {th[t].rv}
             /\ win_data[th[t].rv].used
             /\ win_data_mutex = t
             /\ \A i \in EventsNamed(th[t].log, "free_win_data") :
                   /\ th[t].log[i].obj # th[t].rv
                   /\ th[t].log[i].obj \notin win_data_rb
             /\ Cardinality(EventsNamed(th[t].log, "free_win_data")
                            \cup EventsNamed(th[t].log, "rb_put")) = 1
             /\ \A i \in EventsNamed(th[t].log, "rb_put") : th[t].log[i].obj = th[t].rv

\* a create that lost the race has returned the record the other thread linked
C1_RaceLost ==
    \E t \in Threads :
       /\ Loc(t, "WAYLAND_WindowPosChanging", "created")
       /\ th[t].rv # NULL
       /\ EventsNamed(th[t].log, "free_win_data") # {}
       /\ Linked(Top(t).hwnd) = {th[t].rv}

\* the role objects a surface has
LiveRoles(surface) ==
    (IF surface.xdg_toplevel THEN {"TOPLEVEL"} ELSE {})
    \cup (IF surface.wl_subsurface THEN {"SUBSURFACE"} ELSE {})

\* C2: a compositor surface never has a top-level and a sub-surface role at
\* once, its role objects are those of the role it was given, and no step
\* takes a surface from a role to a different role: between two different
\* roles the surface has no role (or is another surface).
C2_RoleExclusive ==
    /\ [](\A s \in SurfIds : surfaces[s].alive =>
             /\ Cardinality(LiveRoles(surfaces[s])) <= 1
             /\ LiveRoles(surfaces[s]) \subseteq {surfaces[s].role})
    /\ [][\A s \in SurfIds : surfaces[s].alive /\ surfaces'[s].alive =>
             /\ surfaces[s].role = "NONE" \/ surfaces'[s].role = surfaces[s].role
             /\ LiveRoles(surfaces[s]) = {} \/ LiveRoles(surfaces'[s]) = {}
                \/ LiveRoles(surfaces'[s]) = LiveRoles(surfaces[s])]_vars

\* the role manager has cleared the role of a surface that had one and is
\* about to give it a role again
C2_RoleCleared ==
    \E t \in Threads :
       /\ Loc(t, "update_wayland_surface", "make")
       /\ surfaces[Top(t).surface].role # "NONE"
       /\ LiveRoles(surfaces[Top(t).surface]) = {}
       /\ \E i \in EventsNamed(th[t].log, "wayland_surface_clear_role") :
             th[t].log[i].obj = Top(t).surface

\* the snapshots of surface s that a later one has overwritten in requested
Superseded(s) == {p[2] : p \in {q \in superseded : q[1] = s}}

\* C3: a drain promotes the snapshot that is in requested, the last one
\* delivered: processing becomes that snapshot, requested.serial becomes 0,
\* the geometry call is worked out from it; and a snapshot that was
\* overwritten before a drain is never processing, current or the snapshot
\* of a drain's geometry call.
C3_Coalescing ==
    /\ [](/\ \A s \in SurfIds : surfaces[s].alive =>
                /\ surfaces[s].processing.serial \notin Superseded(s)
                /\ surfaces[s].current.serial \notin Superseded(s)
          /\ \A t \in Threads :
                Loc(t, "wayland_configure_window", "unlock")
                \/ Loc(t, "wayland_configure_window", "notify") =>
                   \A s \in SurfIds : surfaces[s].alive /\ surfaces[s].hwnd = Top(t).hwnd =>
                      Top(t).serial \notin Superseded(s))
    /\ [][\A t \in Threads :
             Loc(t, "wayland_configure_window", "locked") /\ th'[t] # th[t]
             /\ th'[t].stack[1].pc = "unlock" =>
                LET s == th[t].rv
                    requested == surfaces[s].requested
                    f == th'[t].stack[1]
                IN /\ requested.serial # 0
                   /\ surfaces'[s].processing = requested
                   /\ surfaces'[s].requested.serial = 0
                   /\ f.serial = requested.serial
                   /\ f.state = requested.state
                   /\ f.width = (IF requested.state # {}
                                 THEN wayland_surface_coords_to_window(requested.width) ELSE 0)
                   /\ f.height = (IF requested.state # {}
                                  THEN wayland_surface_coords_to_window(requested.height) ELSE 0)]_vars

\* two snapshots were delivered before the drain, which applies the second
C3_SecondPromoted ==
    \E t \in Threads, s \in SurfIds :
       /\ Loc(t, "wayland_configure_window", "notify")
       /\ surfaces[s].alive /\ surfaces[s].hwnd = Top(t).hwnd
       /\ Superseded(s) # {}
       /\ surfaces[s].processing.serial = Top(t).serial
       /\ \A n \in Superseded(s) : n < Top(t).serial

\* C4: a drain that finds a toplevel surface with requested.serial = 0 only
\* unlocks the surface and returns: processing, current, resizing and every
\* other field of every surface, the windows' styles and the bindings are
\* unchanged, and the drain has made no notification, no geometry call and no
\* protocol request.
C4_RedundantDrain ==
    [][\A t \in Threads :
          /\ Loc(t, "wayland_configure_window", "locked")
          /\ th[t].rv # NULL
          /\ th'[t] # th[t]
          => LET s == th[t].rv IN
             surfaces[s].xdg_toplevel /\ surfaces[s].requested.serial = 0 =>
                /\ th'[t].stack[1].pc = "done"
                /\ th[t].log = <<>> /\ th'[t].log = <<>>
                /\ surfaces' = [surfaces EXCEPT ![s].mutex = NoThread]
                /\ style' = style
                /\ window_surface_binding' = window_surface_binding
                /\ UnchangedRegistry]_vars

\* a redundant drain has returned while a snapshot is being processed
C4_DrainedNothing ==
    \E t \in Threads :
       /\ Loc(t, "wayland_configure_window", "done")
       /\ Top(t).surface # NULL
       /\ surfaces[Top(t).surface].xdg_toplevel
       /\ surfaces[Top(t).surface].requested.serial = 0
       /\ surfaces[Top(t).surface].processing.serial # 0
       /\ th[t].log = <<>>

UnsetRequests == {"xdg_toplevel_unset_maximized", "xdg_toplevel_unset_fullscreen"}
SetRequests == {"xdg_toplevel_set_maximized", "xdg_toplevel_set_fullscreen"}

\* C5: in the requests a pass of wayland_win_data_update_wayland_state sends
\* for a surface, no unset_maximized or unset_fullscreen comes after a
\* set_maximized or set_fullscreen, whatever the window state and the
\* current state are.
C5_UnsetBeforeSet ==
    \A t \in Threads : \A i, j \in 1..Len(th[t].log) :
       /\ i < j
       /\ th[t].log[i].ev \in SetRequests
       /\ th[t].log[i].obj = th[t].log[j].obj
       => th[t].log[j].ev \notin UnsetRequests

\* a pass has unset one state and set the other
C5_BothTransitions ==
    \E t \in Threads : \E i, j \in 1..Len(th[t].log) :
       /\ i < j
       /\ th[t].log[i].ev \in UnsetRequests
       /\ th[t].log[j].ev \in SetRequests
       /\ th[t].log[i].obj = th[t].log[j].obj

\* an operation is under way and no thread can take a step
Stuck == (\E t \in Threads : th[t].stack # <<>>) /\ ~ENABLED NextThreads

\* C6: no state is reachable in which a started operation cannot go on: the
\* threads never wait for each other in a cycle, no thread waits for a lock
\* it holds, and no operation stops short of its return.
C6_NoOperationStuck == ~Stuck

\* C7 as claimed: no thread holds the locks of two surfaces at once.
C7_OneSurfaceLock == \A t \in Threads : Cardinality(LockedSurfaces(t)) <= 1

\* C7 as amended: a thread holds the locks of two surfaces only in the role
\* manager while it makes the sub-surface role (line 350-352): it then holds
\* the registry lock, the lock of the window's surface and the lock of the
\* anchor's surface, taken in this order. The probes of
\* wayland_win_data_needs_wayland_surface hold one surface lock at a time.
C7_TwoLocksOnlyForSubsurface ==
    \A t \in Threads :
       /\ Cardinality(LockedSurfaces(t)) <= 2
       /\ Cardinality(LockedSurfaces(t)) = 2 =>
             /\ Loc(t, "update_wayland_surface", "parent_locked")
             /\ win_data_mutex = t
             /\ Top(t).surface # win_data[Top(t).pdata].wayland_surface
             /\ th[t].held = <<Registry, Top(t).surface,
                               win_data[Top(t).pdata].wayland_surface>>
       /\ Loc(t, "needs_wayland_surface", "own_locked") =>
             LockedSurfaces(t) = {win_data[Top(t).data].wayland_surface}
       /\ Loc(t, "needs_wayland_surface", "parent_locked") =>
             LockedSurfaces(t) = {win_data[Top(t).pdata].wayland_surface}

\* the role manager holds the window's surface and the anchor's surface
C7_AnchorLockedToo ==
    \E t \in Threads :
       /\ Loc(t, "update_wayland_surface", "parent_locked")
       /\ LockedSurfaces(t) = {Top(t).surface, win_data[Top(t).pdata].wayland_surface}
       /\ Cardinality(LockedSurfaces(t)) = 2

\* thread t is at a pthread_mutex_lock(&win_data_mutex)
AcquiresRegistry(t) ==
    Loc(t, "wayland_win_data_get", "lock") \/ Loc(t, "wayland_win_data_create", "lock")

\* C8: a thread that is about to lock the registry, or locks it, holds no
\* surface lock; so a thread that holds the registry lock and a surface lock
\* took the registry lock first.
C8_RegistryFirst ==
    /\ [](\A t \in Threads :
             /\ AcquiresRegistry(t) => LockedSurfaces(t) = {}
             /\ win_data_mutex = t /\ LockedSurfaces(t) # {} =>
                   /\ th[t].held # <<>>
                   /\ th[t].held[1] = Registry)
    /\ [][\A t \in Threads :
             win_data_mutex # t /\ win_data_mutex' = t => LockedSurfaces(t) = {}]_vars

\* wayland_surface_lock_hwnd holds the registry lock and the surface lock
C8_BothHeld ==
    \E t \in Threads :
       /\ Loc(t, "wayland_surface_lock_hwnd", "release")
       /\ win_data_mutex = t
       /\ LockedSurfaces(t) = {Top(t).surface}

\* C9: wayland_win_data_get and wayland_win_data_create return with the
\* registry lock held exactly when they return a record; a thread that has
\* returned from an entry point, to its caller or with a locked surface,
\* does not hold the registry lock; and no thread unlocks the registry lock
\* without holding it.
C9_LockBalance ==
    /\ fault # "bad_unlock"
    /\ \A t \in Threads :
          /\ win_data_mutex = t <=> Holds(t, Registry)
          /\ Idle(t) \/ Returning(t) => win_data_mutex # t
          /\ Loc(t, "wayland_surface_lock_accel_hwnd", "caller") => win_data_mutex # t
          /\ Loc(t, "WAYLAND_SetWindowText", "locked") => win_data_mutex # t
          /\ th[t].stack # <<>> /\ Top(t).pc \in {"got", "created"} =>
                (win_data_mutex = t <=> th[t].rv # NULL)

\* WAYLAND_WindowPosChanging has returned after its create lost the race
C9_ReleasedAfterRace ==
    \E t \in Threads :
       /\ Loc(t, "WAYLAND_WindowPosChanging", "done")
       /\ EventsNamed(th[t].log, "free_win_data") # {}
       /\ win_data_mutex # t
       /\ th[t].held = <<>>

\* is event a before event b in every pair of them
AllBefore(log, a, b) ==
    \A j \in EventsNamed(log, b) : \E i \in EventsNamed(log, a) : i < j

\* C10: WAYLAND_DestroyWindow on a record with a window surface and a
\* wayland surface has unbound the window surface while the wayland surface
\* still exists, destroys the wayland surface after that, and is done with
\* the window absent from the registry and nothing bound to the destroyed
\* surface.
C10_UnbindBeforeDestroy ==
    \A t \in Threads :
       /\ Loc(t, "WAYLAND_DestroyWindow", "wayland_surface") /\ Top(t).arg =>
             /\ window_surface_binding[Top(t).hwnd] = NULL
             /\ EventsNamed(th[t].log, "window_surface_unbind") # {}
             /\ EventsNamed(th[t].log, "wayland_surface_destroy") = {}
             /\ Top(t).surface # NULL => surfaces[Top(t).surface].alive
       /\ Loc(t, "WAYLAND_DestroyWindow", "done")
          /\ EventsNamed(th[t].log, "rb_remove") # {} =>
             /\ Linked(Top(t).hwnd) = {}
             /\ window_surface_binding[Top(t).hwnd] = NULL
             /\ EventsNamed(th[t].log, "window_surface_release") # {} =>
                   AllBefore(th[t].log, "window_surface_unbind", "wayland_surface_destroy")
             /\ \A j \in EventsNamed(th[t].log, "wayland_surface_destroy") :
                   /\ ~surfaces[th[t].log[j].obj].alive
                   /\ \A h \in HWNDS : window_surface_binding[h] # th[t].log[j].obj

\* a window with both surfaces has been destroyed
C10_BothDestroyed ==
    \E t \in Threads :
       /\ Loc(t, "WAYLAND_DestroyWindow", "done")
       /\ EventsNamed(th[t].log, "window_surface_unbind") # {}
       /\ EventsNamed(th[t].log, "wayland_surface_destroy") # {}

\* C11: wayland_win_data_destroy is entered with the registry lock held; once
\* it has unlinked the record the thread no longer holds the registry lock,
\* so the window surface is detached and the wayland surface destroyed with
\* the lock released and the record out of the index; and it returns with the
\* lock not held.
C11_UnlockBeforeTeardown ==
    /\ [](\A t \in Threads :
             /\ Loc(t, "WAYLAND_DestroyWindow", "got") /\ th[t].rv # NULL =>
                   /\ win_data_mutex = t
                   /\ th[t].rv \in win_data_rb
             /\ th[t].stack # <<>> /\ Top(t).fn = "WAYLAND_DestroyWindow"
                /\ Top(t).pc \in {"window_surface", "wayland_surface", "done"} =>
                   /\ win_data_mutex # t
                   /\ ~Holds(t, Registry)
                   /\ Top(t).data # NULL => Top(t).data \notin win_data_rb)
    /\ [][\A t \in Threads :
             /\ th[t].stack # <<>>
             /\ Top(t).fn = "WAYLAND_DestroyWindow"
             /\ th'[t] # th[t]
             /\ \/ Len(th'[t].log) > Len(th[t].log)
                   /\ th'[t].log[Len(th'[t].log)].ev \in
                         {"window_surface_unbind", "window_surface_release",
                          "wayland_surface_destroy", "free_win_data"}
                \/ surfaces' # surfaces
                \/ window_surface_binding' # window_surface_binding
             => /\ win_data_mutex # t
                /\ EventsNamed(th[t].log, "rb_remove") # {}]_vars

\* the record is unlinked and the lock released; the window surface is
\* detached and the wayland surface is about to be destroyed
C11_TeardownUnlocked ==
    \E t \in Threads :
       /\ Loc(t, "WAYLAND_DestroyWindow", "wayland_surface")
       /\ Top(t).surface # NULL
       /\ surfaces[Top(t).surface].alive
       /\ Top(t).arg
       /\ win_data_mutex = NoThread
       /\ Top(t).data \notin win_data_rb

\* C12: for a child window whose top-level ancestor has no record,
\* wayland_win_data_needs_wayland_surface is never about to read the anchor's
\* record through a null parent_data, and no operation ends in a null
\* dereference.
C12_MissingAnchorNotDereferenced ==
    /\ fault # "null_dereference"
    /\ \A t \in Threads :
          Loc(t, "needs_wayland_surface", "parent") => Top(t).pdata # NULL

MoveResizeRequests(t) ==
    EventsNamed(th[t].log, "xdg_toplevel_move") \cup EventsNamed(th[t].log, "xdg_toplevel_resize")

\* C14 as stated: a move or size command for a window without a button
\* serial returns -1 and sends no move or resize request
C14_NotHandledWithoutSerial ==
    \A t \in Threads :
       Loc(t, "WAYLAND_SysCommand", "done") /\ Top(t).cmd \in {SC_MOVE, SC_SIZE}
       /\ Top(t).serial = 0 =>
          /\ th[t].rv = NotHandled
          /\ MoveResizeRequests(t) = {}

\* C14 amended: a move or size command sends a move or resize request exactly
\* when there is a seat, the window's surface has the toplevel role and the
\* button serial is not 0, and the request carries that serial; without a
\* serial no request is sent. The command returns -1 exactly when the window
\* has no record or no surface, and 0 for a window with a surface, whether a
\* request was sent or not.
C14_RequestOnlyWithSerial ==
    \A t \in Threads :
       Loc(t, "WAYLAND_SysCommand", "done") /\ Top(t).cmd \in {SC_MOVE, SC_SIZE} =>
          LET f == Top(t) IN
          /\ MoveResizeRequests(t) # {} <=>
                /\ f.surface # NULL
                /\ f.arg
                /\ surfaces[f.surface].xdg_toplevel
                /\ f.serial # 0
          /\ \A i \in MoveResizeRequests(t) :
                /\ th[t].log[i].width = f.serial
                /\ th[t].log[i].obj = f.surface
                /\ th[t].log[i].ev =
                      IF f.cmd = SC_MOVE THEN "xdg_toplevel_move" ELSE "xdg_toplevel_resize"
          /\ Cardinality(MoveResizeRequests(t)) <= 1
          /\ th[t].rv = IF f.surface = NULL THEN NotHandled ELSE 0

\* a move or size command for a toplevel window, with a seat but without a
\* button serial, has sent nothing and returns 0
C14_SwallowedWithoutSerial ==
    \E t \in Threads :
       /\ Loc(t, "WAYLAND_SysCommand", "done") /\ Top(t).cmd \in {SC_MOVE, SC_SIZE}
       /\ Top(t).serial = 0
       /\ Top(t).arg
       /\ Top(t).surface # NULL
       /\ surfaces[Top(t).surface].xdg_toplevel
       /\ MoveResizeRequests(t) = {}
       /\ th[t].rv = 0

\* the drains that have returned for a sub-surface
SubsurfaceDrained(t) ==
    /\ Loc(t, "wayland_configure_window", "done")
    /\ Top(t).surface # NULL
    /\ surfaces[Top(t).surface].wl_subsurface

LastEvent(r) == r.log[Len(r.log)]

\* the step of the drain from the unlock at line 718 on keeps the locals
DrainUnlockStep(t) ==
    Loc(t, "wayland_configure_window", "unlock") /\ th'[t] # th[t] =>
       /\ th'[t].stack # <<>>
       /\ th'[t].stack[1].fn = "wayland_configure_window" /\ th'[t].stack[1].pc = "notify"
       /\ th'[t].stack[1].swp = Top(t).swp
       /\ th'[t].stack[1].state = Top(t).state
       /\ th'[t].stack[1].width = Top(t).width
       /\ th'[t].stack[1].height = Top(t).height

\* the last step of the drain makes the geometry call with the size and the
\* flags worked out before
DrainNotifyStep(t) ==
    Loc(t, "wayland_configure_window", "notify") /\ th'[t] # th[t] =>
       /\ Len(th'[t].log) > Len(th[t].log)
       /\ LastEvent(th'[t]).ev = "set_window_pos"
       /\ LastEvent(th'[t]).obj = Top(t).hwnd
       /\ LastEvent(th'[t]).width = Top(t).width
       /\ LastEvent(th'[t]).height = Top(t).height
       /\ Top(t).swp \subseteq LastEvent(th'[t]).flags

\* C16: when the drain finds the window state of the surface fullscreen and
\* the promoted configuration compatible with the window's size, the flags
\* worked out under the surface lock hold the no-size flag, and the geometry
\* call the drain ends with carries them
C16_FullscreenKeepsSize ==
    /\ [](\A t \in Threads :
             /\ Loc(t, "wayland_configure_window", "unlock")
             /\ FULLSCREEN \in surfaces[Top(t).surface].window.state
             /\ Top(t).arg
             => SWP_NOSIZE \in Top(t).swp)
    /\ [][\A t \in Threads : DrainUnlockStep(t) /\ DrainNotifyStep(t)]_vars

\* a drain of a fullscreen window has made a geometry call with a size that
\* is not 0 and with the no-size flag
C16_FullscreenNotResized ==
    \E t \in Threads :
       /\ Loc(t, "wayland_configure_window", "done")
       /\ SurfaceOf(Top(t).hwnd) # NULL
       /\ FULLSCREEN \in surfaces[SurfaceOf(Top(t).hwnd)].window.state
       /\ th[t].log # <<>>
       /\ LastEvent(th[t]).ev = "set_window_pos"
       /\ LastEvent(th[t]).width # 0 /\ LastEvent(th[t]).height # 0
       /\ SWP_NOSIZE \in LastEvent(th[t]).flags

\* C20: a promoted configuration with an empty state gives the drain the
\* size 0x0 whatever width and height it carries, and the geometry call the
\* drain ends with has that size and the no-size flag
C20_EmptyStateKeepsSize ==
    /\ [](\A t \in Threads :
             Loc(t, "wayland_configure_window", "unlock") =>
                LET processing == surfaces[Top(t).surface].processing IN
                /\ Top(t).state = processing.state
                /\ processing.state = {} => Top(t).width = 0 /\ Top(t).height = 0)
    /\ [][\A t \in Threads :
             /\ DrainUnlockStep(t)
             /\ DrainNotifyStep(t)
             /\ Loc(t, "wayland_configure_window", "notify") /\ th'[t] # th[t]
                /\ Top(t).state = {}
                => /\ LastEvent(th'[t]).width = 0 /\ LastEvent(th'[t]).height = 0
                   /\ SWP_NOSIZE \in LastEvent(th'[t]).flags]_vars

\* a drain has promoted a configuration with an empty state and a size of
\* 800x600, and has made its geometry call with the size 0x0 and the no-size
\* flag
C20_SizeHintIgnored ==
    \E t \in Threads :
       /\ Loc(t, "wayland_configure_window", "done")
       /\ SurfaceOf(Top(t).hwnd) # NULL
       /\ LET processing == surfaces[SurfaceOf(Top(t).hwnd)].processing IN
          /\ processing.serial # 0
          /\ processing.state = {}
          /\ processing.width # 0 /\ processing.height # 0
       /\ th[t].log # <<>>
       /\ LastEvent(th[t]).ev = "set_window_pos"
       /\ LastEvent(th[t]).width = 0 /\ LastEvent(th[t]).height = 0
       /\ SWP_NOSIZE \in LastEvent(th[t]).flags

NeedsSurface(data) ==
    LET own == win_data[data].wayland_surface
        anchor == wayland_win_data_get_top_parent(data)
    IN \/ GetAncestor(win_data[data].hwnd) \in {NULL, Desktop}
       \/ own # NULL /\ surfaces[own].client
       \/ /\ anchor # NULL
          /\ win_data[anchor].wayland_surface # NULL
          /\ surfaces[win_data[anchor].wayland_surface].client

\* the part of C18 about the calls that return: the value returned is the
\* one C18 gives, and after the value FALSE without UWS_FORCE_CREATE the role
\* manager unbinds the window surface, destroys the surface the record has,
\* makes no surface and no role, and leaves the record without surface
C18_WhenAnswered ==
    /\ [](\A t \in Threads :
             th[t].stack # <<>> /\ Top(t).pc = "needs_ret" =>
                /\ th[t].rv \in {TRUE_, FALSE_}
                /\ th[t].rv = TRUE_ <=> NeedsSurface(Top(t).data))
    /\ [][\A t \in Threads :
             /\ Loc(t, "update_wayland_surface", "needs_ret") /\ th'[t] # th[t]
                /\ th[t].rv = FALSE_ /\ UWS_FORCE_CREATE \notin Top(t).flags =>
                   LET f == Top(t) IN
                   /\ surfaces' = surfaces /\ win_data' = win_data
                   /\ th'[t].stack[1].fn = "update_wayland_surface"
                   /\ IF f.surface # NULL
                      THEN /\ th'[t].stack[1].pc = "destroy_unneeded"
                           /\ win_data[f.data].window_surface =>
                                 /\ window_surface_binding'[f.hwnd] = NULL
                                 /\ LastEvent(th'[t]).ev = "window_surface_unbind"
                      ELSE /\ th'[t].stack[1].pc = "loop"
                           /\ win_data[f.data].wayland_surface = NULL
             /\ Loc(t, "update_wayland_surface", "destroy_unneeded") /\ th'[t] # th[t] =>
                   LET f == Top(t) IN
                   /\ ~surfaces'[f.surface].alive
                   /\ win_data'[f.data].wayland_surface = NULL
                   /\ window_surface_binding'[f.hwnd] = NULL
                   /\ th'[t].stack[1].fn = "update_wayland_surface"
                   /\ th'[t].stack[1].pc = "loop"
                   /\ LastEvent(th'[t]).ev = "wayland_surface_destroy"]_vars

\* C18: wayland_win_data_needs_wayland_surface answers every call, with the
\* value C18 gives (true iff the window is top-level, or its own surface
\* has a client, or the surface of its anchor has a client, so false for a
\* child without client whose anchor is missing), and after the value FALSE
\* without UWS_FORCE_CREATE the role manager tears the surface of the record
\* down, unbinding the window surface first
C18_NeedsSurface ==
    /\ C18_WhenAnswered
    /\ [](\A t \in Threads :
             th[t].stack # <<>> /\ Top(t).fn = "needs_wayland_surface"
             /\ ~NeedsSurface(Top(t).data)
             => fault = "none")

\* the maximized and fullscreen requests among the effects a step of thread
\* t has added
NewStateRequests(t) ==
    {i \in (Len(th[t].log) + 1)..Len(th'[t].log) :
        th'[t].log[i].ev \in UnsetRequests \cup SetRequests}

\* C19: for a toplevel surface wayland_win_data_update_wayland_state sends
\* set and unset requests for maximized and fullscreen only when no
\* configure event is being processed (processing.serial is 0 or
\* processing.processed is true), and then changes nothing of the surface;
\* while one is being processed it sends none of them and only sets
\* processing.processed
C19_NoRequestWhileProcessing ==
    [][\A t \in Threads :
          /\ Loc(t, "update_wayland_state", "locked") /\ th'[t] # th[t]
          /\ surfaces[Top(t).surface].xdg_toplevel
          /\ ~surfaces[Top(t).surface].wl_subsurface
          => LET s == Top(t).surface
                 surface == surfaces[s]
             IN IF surface.processing.serial = 0 \/ surface.processing.processed
                THEN /\ surfaces' = [surfaces EXCEPT ![s].mutex = NoThread]
                     /\ \A i \in (Len(th[t].log) + 1)..Len(th'[t].log) :
                           th'[t].log[i].ev \in
                              UnsetRequests \cup SetRequests \cup {"wl_display_flush"}
                ELSE /\ NewStateRequests(t) = {}
                     /\ surfaces' = [surfaces EXCEPT ![s].mutex = NoThread,
                                                     ![s].processing.processed = TRUE]]_vars

\* the state update has run for a toplevel whose window state asks for
\* maximized while the current state is not maximized: it has sent no
\* request and has marked the configure event being processed
C19_MarkedOnly ==
    \E t \in Threads, s \in SurfIds :
       /\ surfaces[s].alive /\ surfaces[s].xdg_toplevel
       /\ surfaces[s].mutex = NoThread
       /\ MAXIMIZED \in surfaces[s].window.state
       /\ MAXIMIZED \notin surfaces[s].current.state
       /\ surfaces[s].processing.serial # 0 /\ surfaces[s].processing.processed
       /\ EventsNamed(th[t].log, "wl_display_flush") # {}
       /\ \A i \in 1..Len(th[t].log) : th[t].log[i].ev \notin UnsetRequests \cup SetRequests

\* the effects a step of thread t has added that are named ev
NewEvents(t, ev) ==
    {i \in (Len(th[t].log) + 1)..Len(th'[t].log) : th'[t].log[i].ev = ev}

\* C21: the drain decides on the enter notification iff the promoted state
\* has the Resizing bit and the resizing flag of the surface was false, and
\* on the exit notification iff the bit is clear and the flag was true; the
\* flag then equals the bit; the decisions are kept over the unlock, and the
\* last step of the drain sends exactly the notifications decided on, never
\* both
C21_SizeMoveNotifications ==
    [][\A t \in Threads :
          /\ Loc(t, "wayland_configure_window", "locked") /\ th'[t] # th[t]
             /\ th'[t].stack[1].pc = "unlock" =>
                LET s == th[t].rv
                    bit == RESIZING \in surfaces'[s].processing.state
                    was == surfaces[s].resizing
                IN /\ surfaces'[s].processing = surfaces[s].requested
                   /\ th'[t].stack[1].needs_enter_size_move = (bit /\ ~was)
                   /\ th'[t].stack[1].needs_exit_size_move = (~bit /\ was)
                   /\ surfaces'[s].resizing = bit
          /\ Loc(t, "wayland_configure_window", "unlock") /\ th'[t] # th[t] =>
                /\ th'[t].stack[1].pc = "notify"
                /\ th'[t].stack[1].needs_enter_size_move = Top(t).needs_enter_size_move
                /\ th'[t].stack[1].needs_exit_size_move = Top(t).needs_exit_size_move
                /\ surfaces'[Top(t).surface].resizing = surfaces[Top(t).surface].resizing
          /\ Loc(t, "wayland_configure_window", "notify") /\ th'[t] # th[t] =>
                /\ NewEvents(t, "WM_ENTERSIZEMOVE") # {} <=> Top(t).needs_enter_size_move
                /\ NewEvents(t, "WM_EXITSIZEMOVE") # {} <=> Top(t).needs_exit_size_move
                /\ NewEvents(t, "WM_ENTERSIZEMOVE") = {} \/ NewEvents(t, "WM_EXITSIZEMOVE") = {}
                /\ \A i \in NewEvents(t, "WM_ENTERSIZEMOVE") \cup NewEvents(t, "WM_EXITSIZEMOVE") :
                      th'[t].log[i].obj = Top(t).hwnd
                /\ surfaces' = surfaces
          /\ Loc(t, "wayland_configure_window", "locked") /\ th'[t] # th[t]
             /\ th'[t].stack[1].pc = "done" =>
                /\ NewEvents(t, "WM_ENTERSIZEMOVE") \cup NewEvents(t, "WM_EXITSIZEMOVE") = {}
                /\ \A s \in SurfIds : surfaces'[s].resizing = surfaces[s].resizing]_vars

\* a drain has promoted a state without the Resizing bit for a surface that
\* was being resized: it has sent the exit notification and the flag is off
C21_ExitSent ==
    \E t \in Threads :
       /\ Loc(t, "wayland_configure_window", "done")
       /\ EventsNamed(th[t].log, "WM_EXITSIZEMOVE") # {}
       /\ EventsNamed(th[t].log, "WM_ENTERSIZEMOVE") = {}
       /\ SurfaceOf(Top(t).hwnd) # NULL
       /\ ~surfaces[SurfaceOf(Top(t).hwnd)].resizing

\* the requests of the compositor protocol that C22 names
ProtocolRequests ==
    {"wayland_surface_make_toplevel", "wayland_surface_make_subsurface",
     "wayland_surface_clear_role", "wayland_surface_set_title",
     "xdg_toplevel_move", "xdg_toplevel_resize"} \cup UnsetRequests \cup SetRequests

\* every request among the effects is followed by a flush
Flushed(log) ==
    \A i \in 1..Len(log) :
       log[i].ev \in ProtocolRequests =>
          \E j \in (i + 1)..Len(log) : log[j].ev = "wl_display_flush"

\* no flush was made with a surface locked
FlushedUnlocked(log) ==
    \A j \in 1..Len(log) : log[j].ev = "wl_display_flush" => log[j].flags = {}

\* the operation of thread t has returned to its caller
Returned(t) == th[t].stack # <<>> /\ Top(t).pc \in {"done", "caller"}

\* C22 as stated: every operation that has posted a request, the title set
\* by WAYLAND_SetWindowText included, has flushed the connection after it
\* when it returns, and has flushed with no surface locked
C22_FlushBeforeReturn ==
    \A t \in Threads :
       /\ FlushedUnlocked(th[t].log)
       /\ Returned(t) => Flushed(th[t].log)

\* C22 amended: the operations that post role requests and leave the window
\* with a surface, the state update with its maximized and fullscreen
\* requests, and the move and size commands have flushed the connection
\* after their requests when they return, every flush is made with no
\* surface locked, and WAYLAND_SetWindowText posts the title and returns
\* without a flush
C22_FlushExceptTitle ==
    \A t \in Threads :
       /\ FlushedUnlocked(th[t].log)
       /\ Returned(t) /\ Top(t).fn # "WAYLAND_SetWindowText" => Flushed(th[t].log)
       /\ th[t].stack # <<>> /\ Top(t).fn = "WAYLAND_SetWindowText" =>
             EventsNamed(th[t].log, "wl_display_flush") = {}

\* WAYLAND_SetWindowText has set the title of a toplevel and returns without
\* having flushed
C22_TitleNotFlushed ==
    \E t \in Threads :
       /\ Loc(t, "WAYLAND_SetWindowText", "done")
       /\ EventsNamed(th[t].log, "wayland_surface_set_title") # {}
       /\ EventsNamed(th[t].log, "wl_display_flush") = {}

\* the role manager of thread t is at one of the given lines
UwsAt(t, pcs) ==
    /\ th[t].stack # <<>>
    /\ Top(t).fn = "update_wayland_surface"
    /\ Top(t).pc \in pcs

\* C23: a surface instance never carries two different roles over its
\* lifetime: once it was given a role, every step leaves it that role (the
\* role objects may be cleared and made again); and the role manager never
\* works on a surface whose role differs from the one it wants: when it
\* wants another role the old surface is destroyed before a new one is
\* created in its place.
C23_OneRolePerInstance ==
    /\ [][\A s \in SurfIds :
             surfaces[s].alive /\ surfaces'[s].alive /\ surfaces[s].role # "NONE" =>
                /\ surfaces'[s].role = surfaces[s].role
                /\ LiveRoles(surfaces'[s]) \subseteq {surfaces[s].role}]_vars
    /\ [](\A t \in Threads :
            /\ UwsAt(t, {"lock", "locked", "make", "parent_locked"}) =>
                  \/ Top(t).role = "NONE"
                  \/ surfaces[Top(t).surface].role \in {"NONE", Top(t).role}
            /\ UwsAt(t, {"create"}) =>
                  /\ Top(t).surface = NULL
                  /\ win_data[Top(t).data].wayland_surface # NULL =>
                        ~surfaces[win_data[Top(t).data].wayland_surface].alive)

\* the role manager wanted a role other than the one the record's surface
\* had, has destroyed that surface and works on a new one
C23_Replaced ==
    \E t \in Threads :
       /\ UwsAt(t, {"locked"})
       /\ Top(t).role # "NONE"
       /\ win_data[Top(t).data].wayland_surface \notin {NULL, Top(t).surface}
       /\ ~surfaces[win_data[Top(t).data].wayland_surface].alive
       /\ surfaces[Top(t).surface].alive
       /\ surfaces[Top(t).surface].role = "NONE"
       /\ \E i \in EventsNamed(th[t].log, "wayland_surface_destroy") :
             th[t].log[i].obj = win_data[Top(t).data].wayland_surface

\* the frame is a role-manager invocation that wants a sub-surface and holds
\* a surface whose parent reference names another window than the anchor
AnchorChanged(f) ==
    /\ f.role = "SUBSURFACE"
    /\ f.surface # NULL
    /\ surfaces[f.surface].parent_weak_ref \notin {NULL, win_data[f.pdata].hwnd}

\* C24 as stated: a sub-surface whose parent reference names another window
\* than the anchor is destroyed and replaced as a surface with a conflicting
\* role is, so the role manager never comes to lock such a surface.
C24_AnchorChangeReplaces ==
    \A t \in Threads :
       UwsAt(t, {"lock", "locked", "make", "parent_locked"}) => ~AnchorChanged(Top(t))

\* C24: when the role manager runs on a record whose sub-surface names
\* another window than the anchor in its parent reference, it keeps the
\* surface: nothing is detached, no client is captured, nothing is destroyed;
\* the role is cleared and the same surface is made a sub-surface of the
\* anchor found now.
C24_AnchorChangeKeepsSurface ==
    /\ [][\A t \in Threads :
             th'[t] # th[t] /\ UwsAt(t, {"locked"}) /\ AnchorChanged(Top(t)) =>
                LET s == Top(t).surface IN
                /\ s = win_data[Top(t).data].wayland_surface
                /\ th'[t].stack # <<>>
                /\ th'[t].stack[1].fn = "update_wayland_surface"
                /\ th'[t].stack[1].pc = "make"
                /\ th'[t].stack[1].surface = s
                /\ ~th'[t].stack[1].client
                /\ surfaces'[s].alive
                /\ LiveRoles(surfaces'[s]) = {}
                /\ window_surface_binding' = window_surface_binding
                /\ LastEvent(th'[t]).ev = "wayland_surface_clear_role"
                /\ \A i \in 1..Len(th'[t].log) :
                      LET e == th'[t].log[i] IN
                      /\ e.ev \in {"wayland_surface_destroy", "wayland_surface_create",
                                   "wayland_surface_get_client"}
                         => e.obj \notin SurfCells(Top(t).hwnd)
                      /\ e.ev = "window_surface_unbind" => e.obj # Top(t).hwnd]_vars
    /\ [](\A t \in Threads :
             UwsAt(t, {"loop"}) /\ Top(t).role = "SUBSURFACE" /\ Top(t).surface # NULL =>
                /\ surfaces[Top(t).surface].wl_subsurface
                /\ surfaces[Top(t).surface].parent_weak_ref = win_data[Top(t).pdata].hwnd)

\* the role manager has locked the record's sub-surface, which names the
\* former anchor, without having detached or destroyed anything
C24_FormerAnchor ==
    \E t \in Threads :
       /\ UwsAt(t, {"locked"})
       /\ AnchorChanged(Top(t))
       /\ Top(t).surface = win_data[Top(t).data].wayland_surface
       /\ surfaces[Top(t).surface].wl_subsurface
       /\ surfaces[Top(t).surface].mutex = t
       /\ EventsNamed(th[t].log, "wayland_surface_destroy") = {}

\* thread t takes a step that destroys a compositor surface
TearsDown(t) ==
    /\ th'[t] # th[t]
    /\ th[t].stack # <<>>
    /\ \E s \in SurfIds : surfaces[s].alive /\ ~surfaces'[s].alive

\* C25 as stated: no thread destroys a compositor surface while it holds the
\* registry lock, at any teardown site.
C25_TeardownNeverLocked ==
    [][\A t \in Threads : TearsDown(t) => win_data_mutex # t /\ ~Holds(t, Registry)]_vars

\* C25: a surface is destroyed at three sites. WAYLAND_DestroyWindow destroys
\* it after the registry lock was released; the role manager, which runs
\* under the registry lock of its caller, destroys the unneeded surface of a
\* child and the surface with a conflicting role while the thread holds the
\* registry lock.
C25_TeardownLockBySite ==
    [][\A t \in Threads : TearsDown(t) =>
          \/ /\ Top(t).fn = "WAYLAND_DestroyWindow"
             /\ win_data_mutex # t
             /\ ~Holds(t, Registry)
          \/ /\ UwsAt(t, {"destroy_unneeded", "conflict_destroy"})
             /\ win_data_mutex = t
             /\ Holds(t, Registry)]_vars

\* the role manager has just destroyed a surface and its thread holds the
\* registry lock
C25_RoleManagerTeardownLocked ==
    \E t \in Threads :
       /\ UwsAt(t, {"create", "loop"})
       /\ th[t].log # <<>>
       /\ LastEvent(th[t]).ev = "wayland_surface_destroy"
       /\ ~surfaces[LastEvent(th[t]).obj].alive
       /\ win_data_mutex = t
       /\ Holds(t, Registry)

\* the positions of the role-manager invocations in the call stack of thread
\* t, the innermost first
UwsCalls(t) ==
    {i \in 1..Len(th[t].stack) : th[t].stack[i].fn = "update_wayland_surface"}

\* the sequence has no element twice
NoRepeat(seq) == \A i, j \in 1..Len(seq) : seq[i] = seq[j] => i = j

\* C26: the role manager is on a thread's call stack at most twice, an
\* invocation and one nested invocation for a descendant; the nested
\* invocation carries UWS_NO_UPDATE_CHILDREN and has no record to visit; the
\* records an invocation is still to look at are linked records, each once,
\* and every visit takes the visited record off them, so an invocation
\* visits each record at most once and its loop ends.
C26_OneLevelOfRecursion ==
    /\ [](\A t \in Threads :
             /\ Cardinality(UwsCalls(t)) <= 2
             /\ \A i \in UwsCalls(t) :
                   LET f == th[t].stack[i] IN
                   /\ NoRepeat(f.todo)
                   /\ \A k \in 1..Len(f.todo) : f.todo[k] \in win_data_rb
                   /\ (\E j \in UwsCalls(t) : j > i) =>
                         /\ UWS_NO_UPDATE_CHILDREN \in f.flags
                         /\ f.todo = <<>>
                         /\ f.pc # "visited")
    /\ [][\A t \in Threads :
             th'[t] # th[t] /\ UwsAt(t, {"visited"}) =>
                /\ th'[t].stack # <<>>
                /\ \E i \in 1..Len(th'[t].stack) :
                      /\ th'[t].stack[i].fn = "update_wayland_surface"
                      /\ th'[t].stack[i].pc = "loop"
                      /\ th'[t].stack[i].todo = Tail(Top(t).todo)
                      /\ Len(th'[t].stack) - i = Len(th[t].stack) - 1]_vars

\* a nested invocation for a descendant has come to its loop and has nothing
\* to visit, while the invocation that made it still has the descendant at
\* the head of its records
C26_NestedDone ==
    \E t \in Threads :
       /\ Cardinality(UwsCalls(t)) = 2
       /\ UwsAt(t, {"loop"})
       /\ Top(t).todo = <<>>
       /\ UWS_NO_UPDATE_CHILDREN \in Top(t).flags
       /\ \E j \in UwsCalls(t) :
             /\ j > 1
             /\ th[t].stack[j].pc = "visited"
             /\ th[t].stack[j].todo # <<>>
             /\ Head(th[t].stack[j].todo) = Top(t).data

\* the invocation of frame f on thread t has created or destroyed a surface
\* of its own window: the record's surface is not the one it had on entry
IdentityChanged(t, f) ==
    \E i \in 1..Len(th[t].log) :
       /\ th[t].log[i].ev \in {"wayland_surface_create", "wayland_surface_destroy"}
       /\ th[t].log[i].obj \in SurfCells(f.hwnd)

\* the places in f.todo of the records that own a surface and whose window
\* is a descendant of the window of f
DescendantsToVisit(f) ==
    {k \in 1..Len(f.todo) :
        /\ win_data[f.todo[k]].wayland_surface # NULL
        /\ IsChild(f.hwnd, win_data[f.todo[k]].hwnd)}

\* C27: an invocation without UWS_NO_UPDATE_CHILDREN starts its loop with all
\* linked records in key order; each loop step calls the role manager for
\* the next record that owns a surface and whose window is a descendant of
\* the invocation's window, never for the own record, skipping the others,
\* and returns when there is none; the nested call carries
\* UWS_FORCE_ROLE_UPDATE exactly when the invocation has changed the identity
\* of the surface of its own record; after the nested call the state update
\* runs for the record exactly when the record still has a surface.
C27_DescendantsRevisited ==
    [][\A t \in Threads : th'[t] # th[t] /\ th[t].stack # <<>> =>
          LET f == Top(t)
              n == Len(th[t].stack)
              stack == th'[t].stack
          IN
          /\ UwsAt(t, {"needs_ret", "destroy_unneeded", "create", "locked", "make",
                       "parent_locked"})
             /\ Len(stack) = n /\ stack[1].pc = "loop" =>
                stack[1].todo = IF UWS_NO_UPDATE_CHILDREN \in f.flags THEN <<>>
                                ELSE InKeyOrder(win_data_rb)
          /\ UwsAt(t, {"loop"}) =>
                IF DescendantsToVisit(f) = {}
                THEN Len(stack) = n - 1
                ELSE LET k == Min(DescendantsToVisit(f)) IN
                     /\ Len(stack) = n + 2
                     /\ stack[3] = [f EXCEPT !.pc = "visited",
                                             !.todo = SubSeq(f.todo, k, Len(f.todo))]
                     /\ stack[2].fn = "update_wayland_surface"
                     /\ stack[2].data = f.todo[k]
                     /\ stack[2].data # f.data
                     /\ stack[2].flags =
                           {UWS_NO_UPDATE_CHILDREN}
                           \cup (IF IdentityChanged(t, f) THEN {UWS_FORCE_ROLE_UPDATE}
                                 ELSE {})
          /\ UwsAt(t, {"visited"}) =>
                IF win_data[Head(f.todo)].wayland_surface # NULL
                THEN /\ Len(stack) = n + 1
                     /\ stack[1].fn = "update_wayland_state"
                     /\ stack[1].data = Head(f.todo)
                ELSE Len(stack) = n]_vars

\* an invocation that has created the surface of its window has called the
\* role manager for the descendant that owns a surface, with a forced role
\* update
C27_DescendantForced ==
    \E t \in Threads :
       /\ Len(th[t].stack) >= 2
       /\ Top(t).fn = "update_wayland_surface"
       /\ Top(t).flags = {UWS_NO_UPDATE_CHILDREN, UWS_FORCE_ROLE_UPDATE}
       /\ th[t].stack[2].fn = "update_wayland_surface"
       /\ th[t].stack[2].pc = "visited"
       /\ UWS_NO_UPDATE_CHILDREN \notin th[t].stack[2].flags
       /\ IdentityChanged(t, th[t].stack[2])
       /\ Head(th[t].stack[2].todo) = Top(t).data
       /\ IsChild(th[t].stack[2].hwnd, Top(t).hwnd)

\* thread t takes the step in which wayland_surface_create fails
CreateFails(t) ==
    /\ th'[t] # th[t]
    /\ UwsAt(t, {"create"})
    /\ Len(th'[t].stack) = Len(th[t].stack)
    /\ th'[t].stack[1].pc = "loop"

\* C28: when wayland_surface_create fails in the role manager, the record
\* stays linked and owns no surface, its window has no live surface and so
\* no role, a client reference taken from the destroyed surface is released
\* once and attached to nothing, the window surface is not bound to a
\* destroyed surface, and nothing fails: the role manager goes on to its
\* loop and the operation returns.
C28_CreateFailure ==
    /\ [][\A t \in Threads : CreateFails(t) =>
             LET f == Top(t)
                 log == th'[t].log
             IN
             /\ win_data'[f.data].wayland_surface = NULL
             /\ win_data'[f.data].used
             /\ f.data \in win_data_rb'
             /\ \A s \in SurfCells(f.hwnd) : ~surfaces'[s].alive
             /\ f.client <=> EventsNamed(log, "wayland_surface_get_client") # {}
             /\ Cardinality(EventsNamed(log, "wayland_client_surface_release"))
                   = Cardinality(EventsNamed(log, "wayland_surface_get_client"))
             /\ Cardinality(EventsNamed(log, "wayland_client_surface_release")) <= 1
             /\ EventsNamed(log, "wayland_surface_attach_client") = {}
             /\ window_surface_binding'[f.hwnd] = NULL
             /\ win_data_mutex' = t
             /\ fault' = fault]_vars
    /\ [](\A t \in Threads :
             th[t].stack # <<>> /\ Top(t).pc = "done" /\ fault = "none"
             /\ Top(t).fn \in {"WAYLAND_WindowPosChanged", "wayland_surface_lock_accel_hwnd"}
             => /\ win_data_mutex # t
                /\ \A h \in HWNDS :
                      window_surface_binding[h] # NULL =>
                         surfaces[window_surface_binding[h]].alive)

\* the role manager has destroyed a surface with a conflicting role, taking
\* over its client, the creation of the new surface has failed and the
\* client reference is released
C28_FailedAfterConflict ==
    \E t \in Threads :
       /\ UwsAt(t, {"loop"})
       /\ th[t].log # <<>>
       /\ LastEvent(th[t]).ev = "wayland_client_surface_release"
       /\ EventsNamed(th[t].log, "wayland_surface_get_client") # {}
       /\ EventsNamed(th[t].log, "wayland_surface_destroy") # {}
       /\ EventsNamed(th[t].log, "wayland_surface_create") = {}
       /\ win_data[Top(t).data].wayland_surface = NULL
       /\ Top(t).data \in win_data_rb

\* the frame of WAYLAND_WindowPosChanged that still has its arguments, on
\* thread t
ConfigCall(t) ==
    /\ th[t].stack # <<>>
    /\ th[t].stack[Len(th[t].stack)].fn = "WAYLAND_WindowPosChanged"
    /\ th[t].stack[Len(th[t].stack)].pc # "done"

\* C29: the window state of the surface follows the table. Window rectangle
\* covering the monitor: Maximized with the maximize bit and a full caption,
\* otherwise Fullscreen when not minimized, otherwise empty. Not covering:
\* Maximized iff the maximize bit is set, and nothing else. It never has
\* Maximized and Fullscreen together, and a pass of the state update sends
\* at most one of set_maximized and set_fullscreen.
C29_StateTable ==
    \A t \in Threads :
       /\ ConfigCall(t) =>
             LET f == th[t].stack[Len(th[t].stack)]
                 window_state == surfaces[win_data[f.data].wayland_surface].window.state
                 covers == f.arg
                 maximize == style[f.hwnd]
                 caption == "WS_CAPTION" \in f.flags
                 minimize == "WS_MINIMIZE" \in f.flags
             IN
             /\ covers /\ maximize /\ caption => window_state = {MAXIMIZED}
             /\ covers /\ ~(maximize /\ caption) /\ ~minimize => window_state = {FULLSCREEN}
             /\ covers /\ ~(maximize /\ caption) /\ minimize => window_state = {}
             /\ ~covers /\ maximize => window_state = {MAXIMIZED}
             /\ ~covers /\ ~maximize => window_state = {}
             /\ ~({MAXIMIZED, FULLSCREEN} \subseteq window_state)
       /\ Cardinality({i \in 1..Len(th[t].log) : th[t].log[i].ev \in SetRequests}) <= 1

\* the window covers the monitor and has the maximize bit without a full
\* caption: the state update has asked for fullscreen, after unsetting
\* maximized
C29_FullscreenDespiteMaximize ==
    \E t \in Threads :
       /\ ConfigCall(t)
       /\ Top(t).fn = "WAYLAND_WindowPosChanged"
       /\ Top(t).arg
       /\ style[Top(t).hwnd]
       /\ "WS_CAPTION" \notin Top(t).flags
       /\ EventsNamed(th[t].log, "xdg_toplevel_set_fullscreen") # {}
       /\ EventsNamed(th[t].log, "xdg_toplevel_unset_maximized") # {}
       /\ EventsNamed(th[t].log, "xdg_toplevel_set_maximized") = {}

\* the states for which the size of the geometry call is not to be changed
\* by the application
StrictStates == {MAXIMIZED, FULLSCREEN, TILED}

\* C30: the drain keeps the promoted state from the promotion to the
\* geometry call; its last step makes exactly one geometry call, which
\* carries SWP_NOMOVE, SWP_NOZORDER, SWP_NOACTIVATE and SWP_NOOWNERZORDER,
\* and carries SWP_NOSENDCHANGING iff the promoted state has Maximized,
\* Fullscreen or Tiled.
C30_GeometryCallFlags ==
    /\ [](\A t \in Threads :
             Loc(t, "wayland_configure_window", "unlock") =>
                Top(t).state = surfaces[Top(t).surface].processing.state)
    /\ [][\A t \in Threads :
             /\ Loc(t, "wayland_configure_window", "unlock") /\ th'[t] # th[t]
                => th'[t].stack[1].state = Top(t).state
             /\ Loc(t, "wayland_configure_window", "notify") /\ th'[t] # th[t]
                => LET call == LastEvent(th'[t]) IN
                   /\ Cardinality(NewEvents(t, "set_window_pos")) = 1
                   /\ call.ev = "set_window_pos"
                   /\ {SWP_NOMOVE, SWP_NOZORDER, SWP_NOACTIVATE, SWP_NOOWNERZORDER}
                         \subseteq call.flags
                   /\ SWP_NOSENDCHANGING \in call.flags
                         <=> Top(t).state \cap StrictStates # {}]_vars

\* a drain has promoted a tiled state that is neither maximized nor
\* fullscreen and has made the geometry call with SWP_NOSENDCHANGING
C30_TiledAuthoritative ==
    \E t \in Threads :
       /\ Loc(t, "wayland_configure_window", "done")
       /\ th[t].log # <<>>
       /\ LastEvent(th[t]).ev = "set_window_pos"
       /\ SWP_NOSENDCHANGING \in LastEvent(th[t]).flags
       /\ SWP_NOMOVE \in LastEvent(th[t]).flags
       /\ SurfaceOf(LastEvent(th[t]).obj) # NULL
       /\ surfaces[SurfaceOf(LastEvent(th[t]).obj)].processing.state = {TILED}

(* ------------------- C31: one promotion per snapshot ------------------- *)
\* thread t is past the promotion of a drain and has not returned yet
Draining(t) ==
    Loc(t, "wayland_configure_window", "unlock") \/ Loc(t, "wayland_configure_window", "notify")

\* C31: a drain promotes a snapshot only with the surface locked, and the
\* step that copies requested to processing zeroes requested; the snapshot
\* promoted has a serial that no other drain in progress has promoted and
\* that is neither the one being processed nor the current one. A drain that
\* finds the serial 0 returns without changing a configuration and without
\* any effect.
C31_PromotedOnce ==
    [][\A t \in Threads :
          /\ Loc(t, "wayland_configure_window", "locked") /\ th'[t] # th[t]
             /\ th'[t].stack[1].pc = "unlock" =>
                LET s == th[t].rv
                    snapshot == surfaces[s].requested
                IN /\ snapshot.serial # 0
                   /\ surfaces[s].mutex = t
                   /\ surfaces'[s].mutex = t
                   /\ surfaces'[s].processing = snapshot
                   /\ surfaces'[s].requested.serial = 0
                   /\ th'[t].stack[1].serial = snapshot.serial
                   /\ snapshot.serial \notin
                         {surfaces[s].processing.serial, surfaces[s].current.serial}
                   /\ \A u \in Threads \ {t} :
                         Draining(u) => Top(u).serial # snapshot.serial
          /\ Loc(t, "wayland_configure_window", "locked") /\ th'[t] # th[t]
             /\ th[t].rv # NULL /\ surfaces[th[t].rv].requested.serial = 0 =>
                LET s == th[t].rv IN
                /\ th'[t].stack[1].pc = "done"
                /\ th'[t].log = th[t].log
                /\ surfaces'[s].requested = surfaces[s].requested
                /\ surfaces'[s].processing = surfaces[s].processing
                /\ surfaces'[s].current = surfaces[s].current
                /\ surfaces'[s].resizing = surfaces[s].resizing]_vars

\* two drains of the same window ran at the same time after one configure
\* event: one has promoted its snapshot and is about to send the geometry
\* call, the other has returned without any effect
C31_SecondDrainNoOp ==
    \E t \in Threads, u \in Threads :
       /\ t # u
       /\ Loc(t, "wayland_configure_window", "notify")
       /\ Top(t).serial # 0
       /\ Loc(u, "wayland_configure_window", "done")
       /\ Top(u).hwnd = Top(t).hwnd
       /\ Top(u).surface = SurfaceOf(Top(t).hwnd)
       /\ th[u].log = <<>>
       /\ surfaces[Top(u).surface].processing.serial = Top(t).serial
       /\ surfaces[Top(u).surface].requested.serial = 0

(* --------------- C32: size-move notifications in order ----------------- *)
\* thread t runs a drain of window hwnd, at any statement of it
DrainInProgress(t, hwnd) ==
    \E i \in 1..Len(th[t].stack) :
       /\ th[t].stack[i].fn = "wayland_configure_window"
       /\ th[t].stack[i].hwnd = hwnd
       /\ th[t].stack[i].pc # "done"

\* C32: the enter and exit notifications of a window are delivered in the
\* order the drains decided on them under the surface lock: no drain sends
\* one while another drain of the window, which promoted an earlier
\* snapshot, still has to send its own; and when a drain sends one and
\* leaves no drain of the window in progress, the notification agrees with
\* the resizing flag of the window's surface.
C32_NotificationsInOrder ==
    [][\A t \in Threads :
          /\ Loc(t, "wayland_configure_window", "notify") /\ th'[t] # th[t]
          /\ NewEvents(t, "WM_ENTERSIZEMOVE") \cup NewEvents(t, "WM_EXITSIZEMOVE") # {}
          => LET hwnd == Top(t).hwnd
                 s == SurfaceOf(hwnd)
                 others == Threads \ {t}
             IN /\ \A u \in others :
                      ~(/\ Draining(u) /\ Top(u).hwnd = hwnd
                        /\ Top(u).serial < Top(t).serial
                        /\ Top(u).needs_enter_size_move \/ Top(u).needs_exit_size_move)
                /\ s # NULL /\ (\A u \in others : ~DrainInProgress(u, hwnd)) =>
                      /\ NewEvents(t, "WM_ENTERSIZEMOVE") # {} => surfaces[s].resizing
                      /\ NewEvents(t, "WM_EXITSIZEMOVE") # {} => ~surfaces[s].resizing]_vars

(* ------------- C33: no surface is used after its destruction ----------- *)
\* the surfaces a thread can reach through the registry
RegistrySurfaces == {win_data[r].wayland_surface : r \in win_data_rb} \ {NULL}

Quiescent == \A t \in Threads : th[t].stack = <<>>

\* C34: in every quiescent state every live surface with the sub-surface
\* role names an anchor window whose record is linked in the registry and
\* owns a surface.
C34_SubsurfaceAnchored ==
    Quiescent =>
       \A s \in SurfIds :
          surfaces[s].alive /\ surfaces[s].wl_subsurface =>
             LET anchor == surfaces[s].parent_weak_ref IN
             /\ anchor # NULL
             /\ rb_get(anchor) # NULL
             /\ win_data[rb_get(anchor)].wayland_surface # NULL

(* -------------- C35: the presentation surface follows ------------------ *)
\* thread t returns from an invocation of the role manager
UwsReturns(t) ==
    /\ Loc(t, "update_wayland_surface", "loop")
    /\ th'[t] # th[t]
    /\ Len(th'[t].stack) < Len(th[t].stack)

\* C35: when an invocation of the role manager returns for a record that
\* holds a window surface, the window surface points at the surface the
\* record owns, which is live, or at nothing when the record owns none; and
\* in no state does a window surface point at a destroyed surface or at the
\* surface of another window.
C35_PresentationFollows ==
    /\ [][\A t \in Threads : UwsReturns(t) =>
             LET data == Top(t).data
                 hwnd == Top(t).hwnd
             IN win_data[data].window_surface =>
                   /\ window_surface_binding[hwnd] = win_data[data].wayland_surface
                   /\ win_data[data].wayland_surface # NULL =>
                         surfaces[win_data[data].wayland_surface].alive]_vars
    /\ [](\A h \in HWNDS :
             window_surface_binding[h] # NULL =>
                /\ surfaces[window_surface_binding[h]].alive
                /\ surfaces[window_surface_binding[h]].hwnd = h)

\* the role manager has detached the window surface from a surface with a
\* conflicting role, destroyed that surface, created another and pointed the
\* window surface at it
C35_ReboundAfterReplacement ==
    \E t \in Threads :
       /\ Loc(t, "update_wayland_surface", "loop")
       /\ win_data[Top(t).data].window_surface
       /\ EventsNamed(th[t].log, "window_surface_unbind") # {}
       /\ EventsNamed(th[t].log, "wayland_surface_destroy") # {}
       /\ EventsNamed(th[t].log, "wayland_surface_create") # {}
       /\ \E i \in EventsNamed(th[t].log, "window_surface_bind") :
             th[t].log[i].obj = win_data[Top(t).data].wayland_surface
       /\ window_surface_binding[Top(t).hwnd] = win_data[Top(t).data].wayland_surface
       /\ surfaces[win_data[Top(t).data].wayland_surface].alive

====
